---- MODULE Spec2Model ----
(***************************************************************************)
(* Latency Explorer: the chat exchange of the client (App.tsx, Chat.tsx)   *)
(* and its streaming reassembly of a Server-Sent-Events reply.             *)
(*                                                                         *)
(* Text is a sequence of code points (naturals), a byte stream a sequence  *)
(* of naturals below 256.  A JavaScript string is a sequence of UTF-16     *)
(* code units; every operation used here (concatenation, split at "\n",    *)
(* trim, startsWith, slice(6), equality) gives the same result on code     *)
(* points, because none of the characters they look for is a surrogate.    *)
(***************************************************************************)
EXTENDS Integers, Sequences, FiniteSets, TLC

(***************************************************************************)
(* Character codes.  A TLA+ string literal is turned into the sequence of  *)
(* the codes of its characters, so that the literals of the source can be  *)
(* written as they are.                                                    *)
(***************************************************************************)
AsciiLow == " !\"#$%&'()*+,-./0123456789:;<=>?@ABCDEFGHIJKLMNOPQRSTUVWXYZ[\\]^_"
AsciiHigh == "abcdefghijklmnopqrstuvwxyz{|}~"

Ch(s, i) == SubSeq(s, i, i)

\* The code of every character a literal can hold.
CodeTable ==
  [c \in {Ch(AsciiLow, k) : k \in 1..Len(AsciiLow)}
           \cup {Ch(AsciiHigh, k) : k \in 1..Len(AsciiHigh)}
           \cup {"\n", "\r", "\t"} |->
     IF c = "\n" THEN 10
     ELSE IF c = "\r" THEN 13
     ELSE IF c = "\t" THEN 9
     ELSE IF \E k \in 1..Len(AsciiLow) : Ch(AsciiLow, k) = c
          THEN 31 + (CHOOSE k \in 1..Len(AsciiLow) : Ch(AsciiLow, k) = c)
          ELSE 96 + (CHOOSE k \in 1..Len(AsciiHigh) : Ch(AsciiHigh, k) = c)]

CodeOf(c) == CodeTable[c]

\* The code points (and, for ASCII, the UTF-8 bytes) of a string literal.
Text(s) == [i \in 1..Len(s) |-> CodeOf(Ch(s, i))]

LF == 10
REPLACEMENT == 65533
BOM == 65279

(***************************************************************************)
(* new TextDecoder() and decoder.decode(value, { stream: true }): the      *)
(* UTF-8 decoder of the Encoding standard, error mode "replacement".  Its  *)
(* state lives across calls because every call passes stream: true; the    *)
(* loop never calls decode() without it, so a pending incomplete sequence  *)
(* is never flushed.                                                       *)
(***************************************************************************)
NewTextDecoder ==
  [cp |-> 0, seen |-> 0, needed |-> 0, lower |-> 128, upper |-> 191,
   bomSeen |-> FALSE]

DecoderReset(d) ==
  [d EXCEPT !.cp = 0, !.seen = 0, !.needed = 0, !.lower = 128, !.upper = 191]

\* The handler on a byte when no sequence is pending (bytes needed is 0).
Utf8Lead(d, b) ==
  IF b <= 127 THEN [d |-> d, out |-> <<b>>]
  ELSE IF b >= 194 /\ b <= 223
    THEN [d |-> [d EXCEPT !.needed = 1, !.cp = b % 32], out |-> <<>>]
  ELSE IF b >= 224 /\ b <= 239
    THEN [d |-> [d EXCEPT !.needed = 2, !.cp = b % 16,
                          !.lower = IF b = 224 THEN 160 ELSE 128,
                          !.upper = IF b = 237 THEN 159 ELSE 191],
          out |-> <<>>]
  ELSE IF b >= 240 /\ b <= 244
    THEN [d |-> [d EXCEPT !.needed = 3, !.cp = b % 8,
                          !.lower = IF b = 240 THEN 144 ELSE 128,
                          !.upper = IF b = 244 THEN 143 ELSE 191],
          out |-> <<>>]
  ELSE [d |-> d, out |-> <<REPLACEMENT>>]

\* The replacement character an error emits, before what follows it.
AfterError(r) == [d |-> r.d, out |-> <<REPLACEMENT>> \o r.out]

\* The handler on one byte: a byte outside the expected range ends the
\* pending sequence with an error and is then handled again as a first byte.
Utf8Byte(d, b) ==
  IF d.needed = 0 THEN Utf8Lead(d, b)
  ELSE IF b < d.lower \/ b > d.upper
    THEN AfterError(Utf8Lead(DecoderReset(d), b))
  ELSE LET cp == d.cp * 64 + (b % 64)
       IN  IF d.seen + 1 # d.needed
           THEN [d |-> [d EXCEPT !.cp = cp, !.seen = d.seen + 1,
                                 !.lower = 128, !.upper = 191],
                 out |-> <<>>]
           ELSE [d |-> DecoderReset(d), out |-> <<cp>>]

\* The first code point the decoder ever produces is dropped when it is
\* the byte order mark (ignoreBOM is false).
StripBom(r) ==
  IF r.d.bomSeen \/ r.out = <<>> THEN r
  ELSE [d |-> [r.d EXCEPT !.bomSeen = TRUE],
        out |-> IF Head(r.out) = BOM THEN Tail(r.out) ELSE r.out]

\* The text of two consecutive runs of bytes, and the decoder after them.
JoinDecoded(left, right) == [out |-> left.out \o right.out, d |-> right.d]

\* The decoder fed the bytes value[lo..hi] in order (the range is halved
\* to keep the evaluation shallow; the bytes are still handled one by one,
\* left to right, each from the state the previous one left).
RECURSIVE DecodeRange(_, _, _, _)
RECURSIVE DecodeRest(_, _, _, _)
DecodeRange(d, value, lo, hi) ==
  IF lo > hi THEN [d |-> d, out |-> <<>>]
  ELSE IF lo = hi THEN StripBom(Utf8Byte(d, value[lo]))
  ELSE DecodeRest(DecodeRange(d, value, lo, (lo + hi) \div 2), value,
                  (lo + hi) \div 2 + 1, hi)

DecodeRest(left, value, lo, hi) ==
  JoinDecoded(left, DecodeRange(left.d, value, lo, hi))

\* decoder.decode(value, { stream: true }): the new decoder and the text.
Decode(d, value) == DecodeRange(d, value, 1, Len(value))

(***************************************************************************)
(* String operations of the read loop.                                     *)
(***************************************************************************)
\* White space and line terminators of String.prototype.trim.
WhiteSpace ==
  {9, 10, 11, 12, 13, 32, 160, 5760, 8232, 8233, 8239, 8287, 12288, 65279}
    \cup (8192..8202)

RECURSIVE TrimStart(_)
TrimStart(s) ==
  IF s # <<>> /\ Head(s) \in WhiteSpace THEN TrimStart(Tail(s)) ELSE s

RECURSIVE TrimEnd(_)
TrimEnd(s) ==
  IF s # <<>> /\ s[Len(s)] \in WhiteSpace
  THEN TrimEnd(SubSeq(s, 1, Len(s) - 1)) ELSE s

Trim(s) == TrimEnd(TrimStart(s))

\* buffer.split("\n"): at least one element, the last one the text after
\* the last newline.
SplitLines(s) ==
  LET nl == {i \in 1..Len(s) : s[i] = LF}
      \* the index of the k-th newline; 0 before the first, Len(s) + 1
      \* after the last
      cut(k) == IF k = 0 THEN 0
                ELSE IF k > Cardinality(nl) THEN Len(s) + 1
                ELSE CHOOSE i \in nl : Cardinality({j \in nl : j <= i}) = k
  IN  [k \in 1..(Cardinality(nl) + 1) |-> SubSeq(s, cut(k - 1) + 1, cut(k) - 1)]

StartsWith(s, p) == Len(s) >= Len(p) /\ SubSeq(s, 1, Len(p)) = p

Slice(s, n) == SubSeq(s, n + 1, Len(s))

DataPrefix == Text("data: ")
PrefixLen == 6
DoneSentinel == Text("[DONE]")

(***************************************************************************)
(* JSON.parse(data): a recursive-descent parser of the JSON grammar.  A    *)
(* parse yields [ok |-> TRUE, v |-> value, i |-> next index] or JFail (the *)
(* SyntaxError that JSON.parse throws).  Values carry a tag t.  A number   *)
(* keeps its literal; a \uXXXX escape yields one UTF-16 code unit.         *)
(***************************************************************************)
JFail == [ok |-> FALSE]
JOk(v, i) == [ok |-> TRUE, v |-> v, i |-> i]

JNull == [t |-> "null"]
JUndefined == [t |-> "undefined"]
JBool(b) == [t |-> "bool", v |-> b]
JNum(lex) == [t |-> "num", v |-> lex]
JStr(s) == [t |-> "str", v |-> s]
JArr(items) == [t |-> "arr", v |-> items]
JObj(keys, vals) == [t |-> "obj", keys |-> keys, v |-> vals]

At(s, i) == IF i <= Len(s) THEN s[i] ELSE -1

JsonWs == {9, 10, 13, 32}
TrueLit == Text("true")
FalseLit == Text("false")
NullLit == Text("null")
Digits == 48..57

RECURSIVE SkipWs(_, _)
SkipWs(s, i) == IF At(s, i) \in JsonWs THEN SkipWs(s, i + 1) ELSE i

RECURSIVE ScanDigits(_, _)
ScanDigits(s, i) == IF At(s, i) \in Digits THEN ScanDigits(s, i + 1) ELSE i

IsLit(s, i, lit) ==
  i + Len(lit) - 1 <= Len(s) /\ SubSeq(s, i, i + Len(lit) - 1) = lit

\* number: -? (0 | [1-9][0-9]*) (. [0-9]+)? ([eE] [+-]? [0-9]+)?
\* Each stage is the index after it, or 0 when the literal is malformed.
ParseNumber(s, i) ==
  LET a == IF At(s, i) = 45 THEN i + 1 ELSE i
      b == IF At(s, a) = 48 THEN a + 1
           ELSE IF At(s, a) \in 49..57 THEN ScanDigits(s, a + 1)
           ELSE 0
      c == IF b # 0 /\ At(s, b) = 46
           THEN (LET f == ScanDigits(s, b + 1) IN IF f = b + 1 THEN 0 ELSE f)
           ELSE b
      d == IF c # 0 /\ At(s, c) \in {69, 101}
           THEN (LET g == IF At(s, c + 1) \in {43, 45} THEN c + 2 ELSE c + 1
                     h == ScanDigits(s, g)
                 IN  IF h = g THEN 0 ELSE h)
           ELSE c
  IN  IF d = 0 THEN JFail ELSE JOk(JNum(SubSeq(s, i, d - 1)), d)

\* The escapes \" \\ \/ \b \f \n \r \t and the characters they stand for.
SimpleEscape ==
  (34 :> 34) @@ (92 :> 92) @@ (47 :> 47) @@ (98 :> 8) @@ (102 :> 12)
    @@ (110 :> 10) @@ (114 :> 13) @@ (116 :> 9)

HexDigits == (48..57) \cup (65..70) \cup (97..102)

HexVal(c) == IF c <= 57 THEN c - 48 ELSE IF c <= 70 THEN c - 55 ELSE c - 87

\* The end of the run of plain characters from index i: the index of the
\* first quote, backslash or control character, Len(s) + 1 when none.
RunEnd(s, i) ==
  LET stops == {j \in i..Len(s) : s[j] = 34 \/ s[j] = 92 \/ s[j] < 32}
  IN  IF stops = {} THEN Len(s) + 1
      ELSE CHOOSE j \in stops : \A k \in stops : j <= k

\* The characters of a string literal from index i, after its opening
\* quote, a run of plain characters at a time.
RECURSIVE ScanString(_, _, _)
ScanString(s, i, acc) ==
  LET j == RunEnd(s, i)
      run == acc \o SubSeq(s, i, j - 1)
  IN  IF j > Len(s) THEN JFail
      ELSE IF s[j] = 34 THEN JOk(JStr(run), j + 1)
      ELSE IF s[j] < 32 THEN JFail
      ELSE LET e == At(s, j + 1)
           IN  IF e \in DOMAIN SimpleEscape
               THEN ScanString(s, j + 2, Append(run, SimpleEscape[e]))
               ELSE IF e = 117 /\ \A k \in 2..5 : At(s, j + k) \in HexDigits
               THEN ScanString(s, j + 6,
                      Append(run, HexVal(s[j + 2]) * 4096 + HexVal(s[j + 3]) * 256
                                    + HexVal(s[j + 4]) * 16 + HexVal(s[j + 5])))
               ELSE JFail

RECURSIVE ParseValue(_, _)
RECURSIVE ParseElems(_, _, _)
RECURSIVE ParseMembers(_, _, _, _)

\* The elements of an array from index i, the start of an element.
ParseElems(s, i, acc) ==
  LET r == ParseValue(s, i)
  IN  IF ~r.ok THEN JFail
      ELSE LET j == SkipWs(s, r.i)
           IN  IF At(s, j) = 44
               THEN ParseElems(s, SkipWs(s, j + 1), Append(acc, r.v))
               ELSE IF At(s, j) = 93 THEN JOk(JArr(Append(acc, r.v)), j + 1)
               ELSE JFail

\* The members of an object from index i, the opening quote of a key.
ParseMembers(s, i, keys, vals) ==
  IF At(s, i) # 34 THEN JFail
  ELSE LET k == ScanString(s, i + 1, <<>>)
       IN  IF ~k.ok THEN JFail
           ELSE LET c == SkipWs(s, k.i)
                IN  IF At(s, c) # 58 THEN JFail
                    ELSE LET r == ParseValue(s, SkipWs(s, c + 1))
                         IN  IF ~r.ok THEN JFail
                             ELSE LET j == SkipWs(s, r.i)
                                      ks == Append(keys, k.v.v)
                                      vs == Append(vals, r.v)
                                  IN  IF At(s, j) = 44
                                      THEN ParseMembers(s, SkipWs(s, j + 1), ks, vs)
                                      ELSE IF At(s, j) = 125
                                      THEN JOk(JObj(ks, vs), j + 1)
                                      ELSE JFail

\* A value from index i, its first character.
ParseValue(s, i) ==
  LET c == At(s, i)
  IN  IF c = 123 THEN
        (LET j == SkipWs(s, i + 1)
         IN  IF At(s, j) = 125 THEN JOk(JObj(<<>>, <<>>), j + 1)
             ELSE ParseMembers(s, j, <<>>, <<>>))
      ELSE IF c = 91 THEN
        (LET j == SkipWs(s, i + 1)
         IN  IF At(s, j) = 93 THEN JOk(JArr(<<>>), j + 1)
             ELSE ParseElems(s, j, <<>>))
      ELSE IF c = 34 THEN ScanString(s, i + 1, <<>>)
      ELSE IF c = 45 \/ c \in Digits THEN ParseNumber(s, i)
      ELSE IF IsLit(s, i, TrueLit) THEN JOk(JBool(TRUE), i + 4)
      ELSE IF IsLit(s, i, FalseLit) THEN JOk(JBool(FALSE), i + 5)
      ELSE IF IsLit(s, i, NullLit) THEN JOk(JNull, i + 4)
      ELSE JFail

\* JSON.parse(text): one value between optional white space, nothing else.
WholeText(text, r) ==
  IF r.ok /\ SkipWs(text, r.i) = Len(text) + 1 THEN r ELSE JFail

JsonParse(text) == WholeText(text, ParseValue(text, SkipWs(text, 1)))

(***************************************************************************)
(* parsed.response, its truthiness, and its conversion to a string by      *)
(* fullResponse += parsed.response.                                        *)
(***************************************************************************)
ResponseKey == Text("response")
ZeroText == Text("0")
Comma == Text(",")
UndefinedText == Text("undefined")
ObjectText == Text("[object Object]")

\* The own properties named key, in order; JSON.parse keeps the last one.
KeyIndexes(obj, key) == {k \in 1..Len(obj.keys) : obj.keys[k] = key}

\* parsed.response of a non-null value: only an object can have the
\* property; a string, number, boolean or array has none (undefined).
GetResponse(parsed) ==
  IF parsed.t = "obj" /\ KeyIndexes(parsed, ResponseKey) # {}
  THEN parsed.v[CHOOSE k \in KeyIndexes(parsed, ResponseKey) :
                  \A m \in KeyIndexes(parsed, ResponseKey) : m <= k]
  ELSE JUndefined

\* The mantissa of a number literal: the characters before its exponent.
RECURSIVE Mantissa(_)
Mantissa(lex) ==
  IF lex = <<>> \/ Head(lex) \in {69, 101} THEN <<>>
  ELSE <<Head(lex)>> \o Mantissa(Tail(lex))

IsZeroLiteral(lex) == \A k \in 1..Len(Mantissa(lex)) : lex[k] \in {45, 46, 48}

Truthy(v) ==
  CASE v.t = "undefined" -> FALSE
    [] v.t = "null" -> FALSE
    [] v.t = "bool" -> v.v
    [] v.t = "num" -> ~IsZeroLiteral(v.v)
    [] v.t = "str" -> v.v # <<>>
    [] OTHER -> TRUE

\* Number to string, exact for the literals used here: integers without
\* fraction or exponent, of at most 15 digits (-0 prints as 0).
NumToString(lex) ==
  IF IsZeroLiteral(lex) THEN ZeroText ELSE lex

RECURSIVE ToStr(_)
RECURSIVE JoinItems(_, _)
\* Array.prototype.join(","): null and undefined elements give "".
JoinItems(items, i) ==
  IF i > Len(items) THEN <<>>
  ELSE (IF i > 1 THEN Comma ELSE <<>>)
         \o (IF items[i].t \in {"null", "undefined"} THEN <<>> ELSE ToStr(items[i]))
         \o JoinItems(items, i + 1)

ToStr(v) ==
  CASE v.t = "str" -> v.v
    [] v.t = "num" -> NumToString(v.v)
    [] v.t = "bool" -> IF v.v THEN TrueLit ELSE FalseLit
    [] v.t = "null" -> NullLit
    [] v.t = "undefined" -> UndefinedText
    [] v.t = "arr" -> JoinItems(v.v, 1)
    [] OTHER -> ObjectText

(***************************************************************************)
(* The per-line rule of the read loop (the body of `for (const line of     *)
(* lines)`), and the loop over the complete lines of a chunk step.         *)
(***************************************************************************)
\* fullResponse = parsed.response: the fault AccumulatedGrows rules out.
AppendResponseReplacing(fullResponse, response) ==
  IF Truthy(response) THEN ToStr(response) ELSE fullResponse

\* fullResponse = parsed.response + fullResponse: the fault OrderKept rules
\* out.
AppendResponsePrepending(fullResponse, response) ==
  IF Truthy(response) THEN ToStr(response) \o fullResponse ELSE fullResponse

\* if (parsed.response) { fullResponse += parsed.response; }
AppendResponse(fullResponse, response) ==
  IF Truthy(response) THEN fullResponse \o ToStr(response) ELSE fullResponse

\* A catch that swallows the payload: the fault MalformedIsVerbatim rules
\* out.
TryParsedDropping(fullResponse, data, p) ==
  IF ~p.ok \/ p.v.t = "null" THEN fullResponse
  ELSE AppendResponse(fullResponse, GetResponse(p.v))

\* The try/catch around JSON.parse, p being what JSON.parse(data) gives:
\* the SyntaxError of a payload that is not JSON and the TypeError of
\* reading .response of null both reach the catch, which appends the
\* payload as it is.
TryParsed(fullResponse, data, p) ==
  IF ~p.ok \/ p.v.t = "null" THEN fullResponse \o data
  ELSE AppendResponse(fullResponse, GetResponse(p.v))

ParsePayload(fullResponse, data) ==
  TryParsed(fullResponse, data, JsonParse(data))

\* The loop without its sentinel test: the fault DoneIsNotContent rules out.
DonePayloadParsed(fullResponse, data) == ParsePayload(fullResponse, data)

\* if (data === "[DONE]") continue;
DonePayload(fullResponse, data) ==
  IF data = DoneSentinel THEN fullResponse ELSE ParsePayload(fullResponse, data)

\* A rule that takes a line without the prefix for raw text: the fault
\* NonDataIgnored rules out.
TrimmedLineAny(fullResponse, trimmed) ==
  IF StartsWith(trimmed, DataPrefix)
  THEN DonePayload(fullResponse, Slice(trimmed, PrefixLen))
  ELSE fullResponse \o trimmed

TrimmedLine(fullResponse, trimmed) ==
  IF StartsWith(trimmed, DataPrefix)
  THEN DonePayload(fullResponse, Slice(trimmed, PrefixLen))
  ELSE fullResponse

ProcessLine(fullResponse, line) == TrimmedLine(fullResponse, Trim(line))

\* A loop that leaves at the sentinel (break in place of continue): the
\* fault DoneDoesNotTerminate rules out.
RECURSIVE ProcessLinesUntilDone(_, _, _)
ProcessLinesUntilDone(fullResponse, lines, i) ==
  IF i > Len(lines) THEN fullResponse
  ELSE IF Trim(lines[i]) = DataPrefix \o DoneSentinel THEN fullResponse
  ELSE ProcessLinesUntilDone(ProcessLine(fullResponse, lines[i]), lines, i + 1)

RECURSIVE ProcessLines(_, _, _)
ProcessLines(fullResponse, lines, i) ==
  IF i > Len(lines) THEN fullResponse
  ELSE ProcessLines(ProcessLine(fullResponse, lines[i]), lines, i + 1)

\* A loop over every element of the split, the unfinished last one
\* included: the fault LineAfterNewline rules out.
WithLast(lines) == lines

\* lines.pop() || "": the element after the last newline stays in buffer.
PopLast(lines) == lines[Len(lines)]
AllButLast(lines) == SubSeq(lines, 1, Len(lines) - 1)

\* The lines of the buffer, split: the last one is kept, the others are
\* folded into fullResponse.
SplitStep(decoder, fullResponse, lines) ==
  [decoder |-> decoder,
   buffer |-> PopLast(lines),
   fullResponse |-> ProcessLines(fullResponse, AllButLast(lines), 1)]

\* buffer += chunk, dec being what decoder.decode gave.
BufferStep(st, dec) ==
  SplitStep(dec.d, st.fullResponse, SplitLines(st.buffer \o dec.out))

\* decoder.decode(value) without { stream: true }: each call starts afresh
\* and ends by flushing the bytes of an unfinished character as U+FFFD.  The
\* fault ChunkingInvariance rules out.
Flushed(dec) ==
  [out |-> IF dec.d.needed # 0 THEN Append(dec.out, REPLACEMENT) ELSE dec.out,
   d |-> NewTextDecoder]
ChunkStepFlushed(st, value) ==
  BufferStep(st, Flushed(Decode(NewTextDecoder, value)))

\* One turn of the while loop on a chunk `value`: decode, append to buffer,
\* split, keep the last element, fold the complete lines into fullResponse.
ChunkStep(st, value) == BufferStep(st, Decode(st.decoder, value))

\* The reassembly state when the reader has been obtained.
NewStream == [decoder |-> NewTextDecoder, buffer |-> <<>>, fullResponse |-> <<>>]

(***************************************************************************)
(* The state of App: messages, isChatLoading and showChat are the React    *)
(* state of the component; now is the value Date.now() returns; ex holds   *)
(* one record per call of handleSendMessage, in the order of the calls:    *)
(* the position of the call (pc: the await it is suspended at, or how it   *)
(* ended), its argument, what fetch gave it, and the locals of its read    *)
(* loop (the bytes the reader has delivered are body[1..pos]).             *)
(***************************************************************************)
VARIABLES messages, isChatLoading, showChat, now, ex

\* The Worker: srv holds one record per POST to /api/chat, in the order of
\* arrival.  probe is a call of a function of the edge directory: idle, or
\* the call that has just returned with its arguments and its result.
VARIABLES srv, probe

\* WorldMap: worldMap holds the React state of the component (zoom, pan,
\* isDragging), its refs (dragStart, rect: the cached bounding rectangle,
\* frame: the arguments of the throttled move that waits for its animation
\* frame) and the number of moves made.
VARIABLE worldMap

vars == <<messages, isChatLoading, showChat, now, ex, srv, probe, worldMap>>
clientVars == <<messages, isChatLoading, showChat, now, ex>>
Idle == [pc |-> "idle"]
Null == [null |-> TRUE]

\* The numbers of WorldMap, exact: n / d in lowest terms, d > 0.
RECURSIVE Gcd(_, _)
Gcd(a, b) == IF b = 0 THEN a ELSE Gcd(b, a % b)
Frac(n, d) ==
  [n |-> n \div Gcd(IF n < 0 THEN -n ELSE n, d),
   d |-> d \div Gcd(IF n < 0 THEN -n ELSE n, d)]
Whole(k) == [n |-> k, d |-> 1]
FAdd(a, b) == Frac(a.n * b.d + b.n * a.d, a.d * b.d)
FSub(a, b) == Frac(a.n * b.d - b.n * a.d, a.d * b.d)
FMul(a, b) == Frac(a.n * b.n, a.d * b.d)
\* a / b, b > 0
FDiv(a, b) == Frac(a.n * b.d, a.d * b.n)
FNeg(a) == [n |-> -a.n, d |-> a.d]
FLeq(a, b) == a.n * b.d <= b.n * a.d
FMin(a, b) == IF FLeq(a, b) THEN a ELSE b
FMax(a, b) == IF FLeq(a, b) THEN b ELSE a

\* useState(1), useState({ x: 0, y: 0 }), useState(false) and the refs.
NewWorldMap ==
  [zoom |-> Whole(1), pan |-> [x |-> Whole(0), y |-> Whole(0)],
   isDragging |-> FALSE, dragStart |-> [x |-> 0, y |-> 0], rect |-> Null,
   frame |-> Null, moves |-> 0]

\* How many calls of handleSendMessage a behaviour holds, and how far the
\* clock runs.
MaxExchanges == 2
MaxClock == 1

ErrorText ==
  Text("Sorry, I encountered an error. Please make sure you're running this on Cloudflare Workers to use the AI features.")
FallbackText == Text("Sorry, I couldn't generate a response.")

\* `user-${Date.now()}`, `assistant-${Date.now()}`, `error-${Date.now()}`
MessageId(kind, t) == <<kind, t>>
NoId == <<"none", 0>>

UserMessage(content, t) ==
  [id |-> MessageId("user", t), role |-> "user", content |-> content]
AssistantMessage(content, t) ==
  [id |-> MessageId("assistant", t), role |-> "assistant", content |-> content]
ErrorMessage(t) ==
  [id |-> MessageId("error", t), role |-> "assistant", content |-> ErrorText]

\* What the visitor can type, the suggested questions, the edges of the map
\* and the bodies a reply can have.
Inputs == {Text(" hi "), Text("  ")}
SUGGESTED_QUESTIONS ==
  {Text("What is edge computing?"),
   Text("How does Cloudflare reduce latency?"),
   Text("Why am I connected to this data center?"),
   Text("What does 50ms latency mean?")}
Edges == {[city |-> Text("London"), code |-> Text("LHR")]}
TellMeAbout == Text("Tell me about the ")
OpenParen == Text(" (")
DataCenter == Text(") data center.")
EdgeQuestion(edge) ==
  TellMeAbout \o edge.city \o OpenParen \o edge.code \o DataCenter

\* The last turn of the read loop: whether its chunk was empty, how many
\* complete lines it processed, and the values it passed to setMessages,
\* in order.
NoTurn == [empty |-> FALSE, lines |-> 0, emitted |-> <<>>]

\* A call that has just begun: suspended at `await fetch(...)`.
NewExchange(content) ==
  [pc |-> "fetch", content |-> content, response |-> "none", body |-> <<>>,
   pos |-> 0, st |-> NewStream, assistantId |-> NoId, cutInChar |-> FALSE,
   readWhileHidden |-> FALSE, slot |-> 0, turn |-> NoTurn]

InFlight(e) == ex[e].pc \in {"fetch", "read", "json"}

Init ==
  /\ messages = <<>>
  /\ isChatLoading = FALSE
  /\ showChat = FALSE
  /\ now = 0
  /\ ex = <<>>
  /\ srv = <<>>
  /\ probe = Idle
  /\ worldMap = NewWorldMap

\* handleSendMessage(content) up to its first await: the user message is
\* appended and the loading flag set.
HandleSendMessage(content) ==
  /\ Len(ex) < MaxExchanges
  /\ messages' = Append(messages, UserMessage(content, now))
  /\ isChatLoading' = TRUE
  /\ ex' = Append(ex, NewExchange(content))

\* Chat.handleSubmit: the form of the visible panel.
Submit(input) ==
  /\ showChat
  /\ Trim(input) # <<>> /\ ~isChatLoading
  /\ HandleSendMessage(Trim(input))
  /\ UNCHANGED <<showChat, now, srv, probe, worldMap>>

\* Chat.handleSuggestionClick: the buttons are rendered while there is no
\* message.
SuggestionClick(question) ==
  /\ showChat
  /\ messages = <<>>
  /\ ~isChatLoading
  /\ HandleSendMessage(question)
  /\ UNCHANGED <<showChat, now, srv, probe, worldMap>>

\* App.handleEdgeClick: a click on an edge dot of the map.
EdgeClick(edge) ==
  /\ showChat' = TRUE
  /\ HandleSendMessage(EdgeQuestion(edge))
  /\ UNCHANGED <<now, srv, probe, worldMap>>

\* The chat toggle button, rendered while the panel is hidden.
OpenChat ==
  /\ ~showChat
  /\ showChat' = TRUE
  /\ UNCHANGED <<messages, isChatLoading, now, ex, srv, probe, worldMap>>

\* An onClose that abandons the exchanges in flight: what CloseOnlyHides
\* rules out.
CloseChatAbandoning ==
  /\ showChat
  /\ showChat' = FALSE
  /\ isChatLoading' = FALSE
  /\ ex' = [e \in DOMAIN ex |->
             IF InFlight(e) THEN [ex[e] EXCEPT !.pc = "abandoned"] ELSE ex[e]]
  /\ UNCHANGED <<messages, now, srv, probe, worldMap>>

\* Chat onClose.
CloseChat ==
  /\ showChat
  /\ showChat' = FALSE
  /\ UNCHANGED <<messages, isChatLoading, now, ex, srv, probe, worldMap>>

\* A catch without the finally block, which leaves the flag set: the fault
\* LoadingCleared rules out.
CatchWithoutFinally(e, response) ==
  /\ messages' = Append(messages, ErrorMessage(now))
  /\ ex' = [ex EXCEPT ![e].pc = "error", ![e].response = response]
  /\ UNCHANGED <<isChatLoading, showChat, now, srv, probe, worldMap>>

\* catch: the error message is appended; finally: the flag is cleared.
CatchFinally(e, response) ==
  /\ messages' = Append(messages, ErrorMessage(now))
  /\ isChatLoading' = FALSE
  /\ ex' = [ex EXCEPT ![e].pc = "error", ![e].response = response]
  /\ UNCHANGED <<showChat, now, srv, probe, worldMap>>

\* fetch rejects (no response at all).
FetchRejected(e) ==
  /\ ex[e].pc = "fetch"
  /\ CatchFinally(e, "rejected")

\* A call without the test of response.ok, which reads the body of the
\* failed response: what NotOkIsTerminal rules out.
FetchNotOkStreamed(e) ==
  /\ ex[e].pc = "fetch"
  /\ messages' = Append(messages, AssistantMessage(<<>>, now))
  /\ ex' = [ex EXCEPT ![e].pc = "read", ![e].response = "notok",
                      ![e].assistantId = MessageId("assistant", now)]
  /\ UNCHANGED <<isChatLoading, showChat, now, srv, probe, worldMap>>

\* The response is not ok: throw new Error("Chat request failed").
FetchNotOk(e) ==
  /\ ex[e].pc = "fetch"
  /\ CatchFinally(e, "notok")

\* The response is ok and has a body: the reader, the decoder and the
\* locals are created and the empty assistant message is appended.
FetchStream(e, body) ==
  /\ ex[e].pc = "fetch"
  /\ messages' = Append(messages, AssistantMessage(<<>>, now))
  /\ ex' = [ex EXCEPT ![e].pc = "read", ![e].response = "ok",
                      ![e].body = body, ![e].st = NewStream,
                      ![e].assistantId = MessageId("assistant", now),
                      ![e].slot = Len(messages) + 1]
  /\ UNCHANGED <<isChatLoading, showChat, now, srv, probe, worldMap>>

\* The response is ok and has no body: await response.json().
FetchNoBody(e) ==
  /\ ex[e].pc = "fetch"
  /\ ex' = [ex EXCEPT ![e].pc = "json", ![e].response = "nobody"]
  /\ UNCHANGED <<messages, isChatLoading, showChat, now, srv, probe, worldMap>>

\* response.json() resolved with data.response = text.
JsonResolved(e, text) ==
  /\ ex[e].pc = "json"
  /\ messages' = Append(messages,
       AssistantMessage(IF text # <<>> THEN text ELSE FallbackText, now))
  /\ isChatLoading' = FALSE
  /\ ex' = [ex EXCEPT ![e].pc = "closed"]
  /\ UNCHANGED <<showChat, now, srv, probe, worldMap>>

JsonRejected(e) ==
  /\ ex[e].pc = "json"
  /\ CatchFinally(e, "nobody")

\* setMessages(prev => prev.map(msg => msg.id === assistantId ? ... : msg))
Snapshot(msgs, assistantId, fullResponse) ==
  [i \in 1..Len(msgs) |->
     IF msgs[i].id = assistantId
     THEN [msgs[i] EXCEPT !.content = fullResponse] ELSE msgs[i]]

\* The chunk of n bytes that the reader delivers next, and the number of
\* lines that its turn of the loop processes.
NextChunk(e, n) == SubSeq(ex[e].body, ex[e].pos + 1, ex[e].pos + n)
CompleteLines(e, n) ==
  Len(SplitLines(ex[e].st.buffer
                   \o Decode(ex[e].st.decoder, NextChunk(e, n)).out)) - 1

\* A turn that updates the message only when the text has changed: the
\* fault OneSnapshotPerChunk rules out.
TurnEndWhenChanged(e, n, st) ==
  /\ ex' = [ex EXCEPT ![e].pos = ex[e].pos + n, ![e].st = st,
                      ![e].cutInChar = ex[e].cutInChar \/ st.decoder.needed # 0,
                      ![e].readWhileHidden =
                        ex[e].readWhileHidden \/ (~showChat /\ n > 0),
                      ![e].turn = [empty |-> n = 0,
                                   lines |-> CompleteLines(e, n),
                                   emitted |->
                                     IF st.fullResponse = ex[e].st.fullResponse
                                     THEN <<>> ELSE <<st.fullResponse>>]]
  /\ messages' = Snapshot(messages, ex[e].assistantId, st.fullResponse)

\* The end of a turn of the loop, st being the locals after it: the
\* assistant message is given the accumulated text.
TurnEnd(e, n, st) ==
  /\ ex' = [ex EXCEPT ![e].pos = ex[e].pos + n, ![e].st = st,
                      ![e].cutInChar = ex[e].cutInChar \/ st.decoder.needed # 0,
                      ![e].readWhileHidden =
                        ex[e].readWhileHidden \/ (~showChat /\ n > 0),
                      ![e].turn = [empty |-> n = 0,
                                   lines |-> CompleteLines(e, n),
                                   emitted |-> <<st.fullResponse>>]]
  /\ messages' = Snapshot(messages, ex[e].assistantId, st.fullResponse)

\* A loop that leaves at an empty chunk as it does at done: the fault
\* EmptyChunkIsNoop rules out.
ReadChunkEndingOnEmpty(e, n) ==
  /\ ex[e].pc = "read"
  /\ n <= Len(ex[e].body) - ex[e].pos
  /\ IF n = 0
     THEN /\ ex' = [ex EXCEPT ![e].pc = "closed",
                              ![e].turn = [empty |-> TRUE, lines |-> 0,
                                           emitted |-> <<>>]]
          /\ isChatLoading' = FALSE
          /\ UNCHANGED messages
     ELSE /\ TurnEnd(e, n, ChunkStep(ex[e].st, NextChunk(e, n)))
          /\ UNCHANGED isChatLoading
  /\ UNCHANGED <<showChat, now, srv, probe, worldMap>>

\* reader.read() resolved with done false and the next n bytes: one turn
\* of the loop, with the update of the assistant message that ends it.
ReadChunk(e, n) ==
  /\ ex[e].pc = "read"
  /\ n <= Len(ex[e].body) - ex[e].pos
  /\ TurnEnd(e, n, ChunkStep(ex[e].st, NextChunk(e, n)))
  /\ UNCHANGED <<isChatLoading, showChat, now, srv, probe, worldMap>>

\* reader.read() resolved with done true: break, then finally.
ReadDone(e) ==
  /\ ex[e].pc = "read"
  /\ ex[e].pos = Len(ex[e].body)
  /\ isChatLoading' = FALSE
  /\ ex' = [ex EXCEPT ![e].pc = "closed"]
  /\ UNCHANGED <<messages, showChat, now, srv, probe, worldMap>>

\* reader.read() rejected: catch, then finally.
ReadError(e) ==
  /\ ex[e].pc = "read"
  /\ CatchFinally(e, "ok")

\* Time passes.
Tick ==
  /\ now < MaxClock
  /\ now' = now + 1
  /\ UNCHANGED <<messages, isChatLoading, showChat, ex, srv, probe, worldMap>>

(***************************************************************************)
(* The reply bodies.                                                       *)
(***************************************************************************)
\* data.response of a reply without a body.
JsonReplies == {<<>>, Text("A")}

\* A short reply, for the behaviours with several exchanges, and the sizes
\* of the chunks it comes in (an empty chunk, or half of it).
ShortBody == Text("data: a\n")
ShortChunks == {0, Len(ShortBody) \div 2}

HiBody == Text("data: {\"response\":\"Hi\"}\n\ndata: [DONE]\n\n")
DoneBody == Text("data: [DONE]\n\n")
DoneThenDataBody == Text("data: [DONE]\ndata: {\"response\":\"X\"}\n\n")
MalformedBody ==
  Text("data: {\"response\":\"a\"}\ndata: {oops\ndata: {\"response\":\"b\"}\n")
UnterminatedBody == Text("data: {\"response\":\"A\"}\ndata: {\"response\":\"B\"}")
\* A byte order mark, then e-acute (2 bytes), the euro sign (3 bytes) and an
\* emoji (4 bytes) inside the payload, then a line of invalid bytes.
Utf8Body ==
  <<239, 187, 191>> \o Text("data: {\"response\":\"") \o <<195, 169>>
    \o <<226, 130, 172>> \o <<240, 159, 152, 128>> \o Text("\"}\r\n")
    \o Text("data: ") \o <<195, 40, 128, 255>> \o Text("\n")
OtherFieldsBody ==
  Text(": ping\nevent: x\n\ndata:{\"response\":\"n\"}\n  data: {\"response\":\"ok\"} \r\n")
ValuesBody ==
  Text("data: null\ndata: 7\ndata: {\"response\":0}\ndata: {\"r\":1}\ndata: [1]\ndata: {\"response\":5}\n")

SseBodies ==
  {HiBody, DoneBody, DoneThenDataBody, MalformedBody, UnterminatedBody,
   Utf8Body, OtherFieldsBody, ValuesBody}

(***************************************************************************)
(* Spec: the application, with up to MaxExchanges calls of                 *)
(* handleSendMessage, which may overlap, each with a short reply.          *)
(***************************************************************************)
Exchanges == 1..MaxExchanges

Live(e) == e \in DOMAIN ex

Next ==
  \/ \E input \in Inputs : Submit(input)
  \/ \E question \in SUGGESTED_QUESTIONS : SuggestionClick(question)
  \/ \E edge \in Edges : EdgeClick(edge)
  \/ OpenChat
  \/ CloseChat
  \/ Tick
  \/ \E e \in Exchanges : Live(e) /\ FetchRejected(e)
  \/ \E e \in Exchanges : Live(e) /\ FetchNotOk(e)
  \/ \E e \in Exchanges : Live(e) /\ FetchStream(e, ShortBody)
  \/ \E e \in Exchanges : Live(e) /\ FetchNoBody(e)
  \/ \E e \in Exchanges, text \in JsonReplies :
       Live(e) /\ JsonResolved(e, text)
  \/ \E e \in Exchanges : Live(e) /\ JsonRejected(e)
  \/ \E e \in Exchanges, n \in ShortChunks : Live(e) /\ ReadChunk(e, n)
  \/ \E e \in Exchanges : Live(e) /\ ReadDone(e)
  \/ \E e \in Exchanges : Live(e) /\ ReadError(e)

Spec == Init /\ [][Next]_vars

(***************************************************************************)
(* SpecStream: one exchange started from the chat form, its reply any of   *)
(* the SSE bodies, cut into chunks in every way.                           *)
(***************************************************************************)
BodyLengths == 0..(CHOOSE n \in {Len(b) : b \in SseBodies} :
                     \A b \in SseBodies : Len(b) <= n)

NextStream ==
  \/ OpenChat
  \/ \E input \in Inputs : ex = <<>> /\ Submit(input)
  \/ \E body \in SseBodies : Live(1) /\ FetchStream(1, body)
  \/ \E n \in BodyLengths : Live(1) /\ ReadChunk(1, n)
  \/ Live(1) /\ ReadDone(1)
  \/ Live(1) /\ ReadError(1)

SpecStream == Init /\ [][NextStream]_vars

(***************************************************************************)
(* SpecSingle: one exchange from its beginning to its end, begun by any    *)
(* of the three actions, with every outcome of the fetch and the panel     *)
(* opened and closed around it.                                            *)
(***************************************************************************)
NextSingle ==
  \/ \E input \in Inputs : ex = <<>> /\ Submit(input)
  \/ \E question \in SUGGESTED_QUESTIONS : ex = <<>> /\ SuggestionClick(question)
  \/ \E edge \in Edges : ex = <<>> /\ EdgeClick(edge)
  \/ OpenChat
  \/ CloseChat
  \/ Tick
  \/ Live(1) /\ FetchRejected(1)
  \/ Live(1) /\ FetchNotOk(1)
  \/ Live(1) /\ FetchStream(1, ShortBody)
  \/ Live(1) /\ FetchNoBody(1)
  \/ \E text \in JsonReplies : Live(1) /\ JsonResolved(1, text)
  \/ Live(1) /\ JsonRejected(1)
  \/ \E n \in ShortChunks : Live(1) /\ ReadChunk(1, n)
  \/ Live(1) /\ ReadDone(1)
  \/ Live(1) /\ ReadError(1)

SpecSingle == Init /\ [][NextSingle]_vars

(***************************************************************************)
(* SpecSingleFair: SpecSingle in which every promise the call awaits is    *)
(* settled: the fetch resolves or rejects, response.json() resolves or     *)
(* rejects, and the stream of the body ends or fails.                      *)
(***************************************************************************)
Settled ==
  /\ Live(1)
  /\ \/ FetchRejected(1)
     \/ FetchNotOk(1)
     \/ FetchStream(1, ShortBody)
     \/ FetchNoBody(1)
     \/ \E text \in JsonReplies : JsonResolved(1, text)
     \/ JsonRejected(1)
     \/ ReadDone(1)
     \/ ReadError(1)

SpecSingleFair == SpecSingle /\ WF_vars(Settled)

(***************************************************************************)
(* The exchanges of a session (Spec, SpecSingle).                          *)
(***************************************************************************)
\* C1 (as stated): no exchange begins while another is in flight, whatever
\* the action that begins it: at most one exchange is in flight.
OneExchangeAtATime ==
  Cardinality({e \in DOMAIN ex : InFlight(e)}) <= 1

\* C8 (as stated): when a read fails after bytes of the reply have been
\* processed, an error message is appended and the assistant message of
\* the exchange holds the text accumulated up to the failure.
PartialTextKept ==
  [][\A e \in DOMAIN ex :
       (ex[e].pc = "read" /\ ex[e].pos > 0 /\ ex'[e].pc = "error") =>
         /\ messages' = Append(messages, ErrorMessage(now))
         /\ ex[e].slot \in 1..Len(messages)
         /\ messages'[ex[e].slot].id = ex[e].assistantId
         /\ messages'[ex[e].slot].content = ex[e].st.fullResponse]_vars

\* C9: a response that is not ok ends the exchange in error.  The step
\* appends the error message and nothing else, after the user's message;
\* the exchange has no assistant message, has read no byte of a body and
\* never moves again.
NotOkIsTerminal ==
  /\ [](\A e \in DOMAIN ex :
          ex[e].response = "notok" =>
            /\ ex[e].pc = "error" /\ ex[e].assistantId = NoId
            /\ ex[e].pos = 0 /\ ex[e].st = NewStream)
  /\ [][\A e \in DOMAIN ex :
          /\ (ex[e].pc = "fetch" /\ ex'[e].response = "notok") =>
               /\ messages' = Append(messages, ErrorMessage(now))
               /\ \E i \in 1..Len(messages) :
                    /\ messages[i].role = "user"
                    /\ messages[i].content = ex[e].content
          /\ ex[e].response = "notok" => ex'[e] = ex[e]]_vars

\* An exchange has ended on a response that was not ok: the user's message
\* and the error message are all there is.
EndedNotOk ==
  \E e \in DOMAIN ex :
    /\ ex[e].response = "notok" /\ Len(messages) = 2
    /\ messages[2].content = ErrorText

\* C10 (as stated): once the panel has been closed with an exchange in
\* flight, the exchange is abandoned: no chunk is consumed and the message
\* list does not change.
AbandonedOnClose ==
  [][(~showChat /\ \E e \in DOMAIN ex : InFlight(e)) =>
       (messages' = messages /\ ex' = ex)]_vars

\* C10 (as the code has it): closing the panel only hides it.  The step
\* leaves the messages, the loading flag and every exchange as they are,
\* and behind the hidden panel an exchange in flight ends only as it would
\* have: by an error, or when every byte of the reply has been read.
CloseOnlyHides ==
  [][/\ (showChat /\ ~showChat') =>
          UNCHANGED <<messages, isChatLoading, now, ex>>
     /\ \A e \in DOMAIN ex :
          (~showChat /\ InFlight(e) /\ ~InFlight(e)') =>
            \/ ex'[e].pc = "error"
            \/ ex'[e].pc = "closed" /\ ex[e].pc = "json"
            \/ ex'[e].pc = "closed" /\ ex'[e].pos = Len(ex'[e].body)]_vars

\* A reply has been read to its end behind the hidden panel, and the
\* message list shows it.
ReadBehindHiddenPanel ==
  \E e \in DOMAIN ex :
    /\ ex[e].pc = "closed" /\ ex[e].readWhileHidden
    /\ messages[ex[e].slot].id = ex[e].assistantId
    /\ messages[ex[e].slot].content = Text("a")

(***************************************************************************)
(* The reassembly of a reply (SpecStream).                                 *)
(***************************************************************************)
Streamed(e) == ex[e].response = "ok"
Closed(e) == ex[e].response = "ok" /\ ex[e].pc = "closed"
NoErrorMessage == \A i \in 1..Len(messages) : messages[i].content # ErrorText

\* The complete lines and the unfinished last line of the first n bytes of
\* a body, decoded as one chunk.
LinesOf(body, n) == SplitLines(Decode(NewTextDecoder, SubSeq(body, 1, n)).out)

\* C2: chunking invariance.  However the bytes of a reply were cut into
\* chunks, a cut inside a character, a line or a payload included, the
\* accumulated text when the stream has ended is the text that the whole
\* reply fed as one chunk gives.
ChunkingInvariance ==
  \A e \in DOMAIN ex :
    Closed(e) =>
      ex[e].st.fullResponse = ChunkStep(NewStream, ex[e].body).fullResponse

\* A reply with multi-byte characters has ended, one of its chunks having
\* ended inside a character.
ClosedAfterCutInChar ==
  \E e \in DOMAIN ex :
    Closed(e) /\ ex[e].cutInChar /\ ex[e].body = Utf8Body
      /\ ex[e].st.fullResponse # <<>>

\* C3 (as stated): at the end of the data a final flush processes the line
\* that the buffer still holds, so the accumulated text of an ended stream
\* is that of every line of the reply, the unterminated last one included.
FinalFlush ==
  \A e \in DOMAIN ex :
    Closed(e) =>
      ex[e].st.fullResponse =
        ProcessLines(<<>>, LinesOf(ex[e].body, Len(ex[e].body)), 1)

\* C4: a line is processed only once its newline has arrived.  After every
\* turn of the loop the buffer is the text after the last newline received
\* and the accumulated text is that of the lines before it, each processed
\* once and whole; the reply data: {"response":"Hi"}, cut anywhere, ends
\* with the accumulated text Hi.
LineAfterNewline ==
  \A e \in DOMAIN ex :
    Streamed(e) =>
      /\ ex[e].st.buffer = PopLast(LinesOf(ex[e].body, ex[e].pos))
      /\ ex[e].st.fullResponse =
           ProcessLines(<<>>, SubSeq(LinesOf(ex[e].body, ex[e].pos), 1,
                                     Len(LinesOf(ex[e].body, ex[e].pos)) - 1), 1)
      /\ (Closed(e) /\ ex[e].body = HiBody) =>
           (ex[e].st.fullResponse = Text("Hi") /\ NoErrorMessage)

\* The first chunk has ended inside the JSON payload, which waits in the
\* buffer.
HalfPayload == Text("data: {\"respo")
PayloadWithheld ==
  \E e \in DOMAIN ex :
    /\ ex[e].pc = "read" /\ ex[e].body = HiBody
    /\ ex[e].st.buffer = HalfPayload /\ ex[e].st.fullResponse = <<>>

\* C5: a line whose payload is exactly [DONE] leaves the accumulated text
\* as it is, whatever it is; a reply that is the [DONE] frame alone ends
\* with the empty accumulated text, closed, without an error message.
DoneLines == {Text("data: [DONE]"), Text("  data: [DONE] \r")}
DoneIsNotContent ==
  \A e \in DOMAIN ex :
    Streamed(e) =>
      /\ \A line \in DoneLines :
           ProcessLine(ex[e].st.fullResponse, line) = ex[e].st.fullResponse
      /\ (Closed(e) /\ ex[e].body = DoneBody) =>
           (ex[e].st.fullResponse = <<>> /\ NoErrorMessage)

\* The reply that is the [DONE] frame alone has ended.
ClosedAfterDoneOnly ==
  \E e \in DOMAIN ex :
    Closed(e) /\ ex[e].body = DoneBody /\ Len(messages) = 2

\* C6: the sentinel does not end the stream.  An exchange is closed only
\* when every byte of the reply has been read, and a data line that comes
\* after the sentinel, in the same chunk or a later one, is appended.
DoneDoesNotTerminate ==
  \A e \in DOMAIN ex :
    Streamed(e) =>
      /\ ex[e].pc = "closed" => ex[e].pos = Len(ex[e].body)
      /\ (Closed(e) /\ ex[e].body = DoneThenDataBody) =>
           ex[e].st.fullResponse = Text("X")
      /\ (ex[e].pc = "read" /\ ex[e].body = DoneThenDataBody
            /\ ex[e].pos = Len(ex[e].body)) =>
           ex[e].st.fullResponse = Text("X")

\* The reply with a data line after the sentinel has ended.
ClosedAfterDoneThenData ==
  \E e \in DOMAIN ex :
    Closed(e) /\ ex[e].body = DoneThenDataBody
      /\ messages[Len(messages)].content = Text("X")

\* C7: a payload that JSON.parse rejects is appended as it is; the lines
\* after it are processed and no error message is added.
MalformedPayloads == {Text("{oops"), Text("plain text"), Text("{\"response\":")}
MalformedIsVerbatim ==
  \A e \in DOMAIN ex :
    Streamed(e) =>
      /\ \A data \in MalformedPayloads :
           ProcessLine(ex[e].st.fullResponse, DataPrefix \o data)
             = ex[e].st.fullResponse \o data
      /\ (Closed(e) /\ ex[e].body = MalformedBody) =>
           (ex[e].st.fullResponse = Text("a{oopsb") /\ NoErrorMessage)

\* The reply with a malformed payload between two well-formed ones has
\* ended.
ClosedAfterMalformed ==
  \E e \in DOMAIN ex :
    Closed(e) /\ ex[e].body = MalformedBody
      /\ messages[Len(messages)].content = Text("a{oopsb")

(***************************************************************************)
(* src/data/edges.ts: the edge directory.  A coordinate is a whole number  *)
(* of hundredths of a degree (the table has two decimals), an angle a      *)
(* whole number of 1e-8 radians, a distance a whole number of 1e-4 km.     *)
(***************************************************************************)
E(code, city, country, lat, lng) ==
  [code |-> code, city |-> city, country |-> country, lat |-> lat, lng |-> lng]

\* A table in which one code is entered twice.
DuplicatedCode ==
  <<E("LHR", "London", "GB", 5147, -45), E("CDG", "Paris", "FR", 4901, 255),
    E("LHR", "Manchester", "GB", 5335, -227)>>

EDGE_LOCATIONS ==
  <<E("SJC", "San Jose", "US", 3736, -12193),
    E("LAX", "Los Angeles", "US", 3394, -11841),
    E("SEA", "Seattle", "US", 4745, -12231),
    E("ORD", "Chicago", "US", 4197, -8791),
    E("IAD", "Washington DC", "US", 3895, -7746),
    E("EWR", "Newark", "US", 4069, -7417),
    E("MIA", "Miami", "US", 2580, -8029),
    E("DFW", "Dallas", "US", 3290, -9704),
    E("ATL", "Atlanta", "US", 3364, -8443),
    E("DEN", "Denver", "US", 3986, -10467),
    E("PHX", "Phoenix", "US", 3343, -11201),
    E("YYZ", "Toronto", "CA", 4368, -7963),
    E("YVR", "Vancouver", "CA", 4919, -12318),
    E("MEX", "Mexico City", "MX", 1944, -9907),
    E("LHR", "London", "GB", 5147, -45),
    E("AMS", "Amsterdam", "NL", 5231, 477),
    E("FRA", "Frankfurt", "DE", 5004, 856),
    E("CDG", "Paris", "FR", 4901, 255),
    E("MAD", "Madrid", "ES", 4047, -356),
    E("MXP", "Milan", "IT", 4563, 872),
    E("ZRH", "Zurich", "CH", 4746, 856),
    E("VIE", "Vienna", "AT", 4811, 1657),
    E("WAW", "Warsaw", "PL", 5217, 2097),
    E("ARN", "Stockholm", "SE", 5965, 1795),
    E("HEL", "Helsinki", "FI", 6032, 2496),
    E("DUB", "Dublin", "IE", 5343, -625),
    E("NRT", "Tokyo", "JP", 3577, 14039),
    E("HND", "Tokyo Haneda", "JP", 3555, 13978),
    E("SIN", "Singapore", "SG", 136, 10399),
    E("HKG", "Hong Kong", "HK", 2231, 11392),
    E("ICN", "Seoul", "KR", 3746, 12644),
    E("SYD", "Sydney", "AU", -3394, 15118),
    E("MEL", "Melbourne", "AU", -3767, 14484),
    E("BOM", "Mumbai", "IN", 1909, 7287),
    E("DEL", "New Delhi", "IN", 2856, 7710),
    E("BKK", "Bangkok", "TH", 1369, 10075),
    E("KUL", "Kuala Lumpur", "MY", 275, 10171),
    E("CGK", "Jakarta", "ID", -613, 10666),
    E("MNL", "Manila", "PH", 1451, 12102),
    E("TPE", "Taipei", "TW", 2508, 12123),
    E("GRU", "Sao Paulo", "BR", -2344, -4647),
    E("GIG", "Rio de Janeiro", "BR", -2281, -4325),
    E("EZE", "Buenos Aires", "AR", -3482, -5854),
    E("SCL", "Santiago", "CL", -3339, -7079),
    E("BOG", "Bogota", "CO", 470, -7415),
    E("LIM", "Lima", "PE", -1202, -7711),
    E("JNB", "Johannesburg", "ZA", -2614, 2824),
    E("CPT", "Cape Town", "ZA", -3397, 1860),
    E("DXB", "Dubai", "AE", 2525, 5536),
    E("TLV", "Tel Aviv", "IL", 3201, 3489),
    E("CAI", "Cairo", "EG", 3011, 3140),
    E("NBO", "Nairobi", "KE", -132, 3693),
    E("LOS", "Lagos", "NG", 658, 332)>>

\* What find gives when no element matches.
Undefined == [undefined |-> TRUE]

\* A search that folds the case of the code asked for before it compares.
Folded(code) == IF code \in {"lhr", "Lhr"} THEN "LHR" ELSE code
RECURSIVE FirstMatchFolded(_, _, _)
FirstMatchFolded(edges, code, i) ==
  IF i > Len(edges) THEN Undefined
  ELSE IF edges[i].code = Folded(code) THEN edges[i]
  ELSE FirstMatchFolded(edges, code, i + 1)

\* Array.prototype.find with the predicate e.code === code: the first
\* element whose code is the argument, compared as === compares strings.
RECURSIVE FirstMatch(_, _, _)
FirstMatch(edges, code, i) ==
  IF i > Len(edges) THEN Undefined
  ELSE IF edges[i].code = code THEN edges[i]
  ELSE FirstMatch(edges, code, i + 1)

FindByCode(edges, code) == FirstMatch(edges, code, 1)

GetEdgeByCode(code) == FindByCode(EDGE_LOCATIONS, code)

(***************************************************************************)
(* The arithmetic of haversineDistance, in fixed point.  A number is a     *)
(* whole count of 1e-8; every operation rounds toward zero, so that, as in *)
(* IEEE arithmetic, negating an operand negates the result exactly and a   *)
(* product does not depend on the order of its factors.                    *)
(***************************************************************************)
Half == 10000
One == 100000000
PI == 314159265
HALF_PI == 157079632
QUARTER_PI == 78539816
TAN_PI_8 == 41421356

Abs(x) == IF x < 0 THEN -x ELSE x

\* a / b for b > 0, rounded toward zero.
Quot(a, b) == IF a < 0 THEN -((-a) \div b) ELSE a \div b

\* a * b of two fixed-point numbers, the factors split so that no partial
\* product leaves 32 bits.
MulAbs(a, b) ==
  (a \div Half) * (b \div Half)
    + ((a \div Half) * (b % Half) + (a % Half) * (b \div Half)) \div Half
Mul(a, b) ==
  IF (a < 0) # (b < 0) THEN -MulAbs(Abs(a), Abs(b))
  ELSE MulAbs(Abs(a), Abs(b))

\* n / d of two fixed-point numbers, 0 <= n and 0 < d, by long division.
RECURSIVE DivDigits(_, _, _, _)
DivDigits(r, d, q, k) ==
  IF k = 0 THEN q
  ELSE DivDigits((r * 10) % d, d, q * 10 + (r * 10) \div d, k - 1)
FixDiv(n, d) ==
  IF n < 0 THEN -DivDigits((-n) % d, d, (-n) \div d, 8)
  ELSE DivDigits(n % d, d, n \div d, 8)

\* toRad: (deg * Math.PI) / 180, deg in hundredths of a degree.
ToRad(deg) == deg * 17453 + Quot(deg * 29252, 100000)

\* The values of a number that are no finite number.  A coordinate or a
\* distance is finite, NaN, Infinity or -Infinity.
NaN == 2147483646
Infinity == 2147483647
NegInfinity == -Infinity
Finite(x) == x \notin {NaN, Infinity, NegInfinity}

\* The angle of [-pi, pi] that differs from x by a multiple of 2 pi.
RECURSIVE Wrap(_)
Wrap(x) ==
  IF x > PI THEN Wrap(x - 2 * PI)
  ELSE IF x < -PI THEN Wrap(x + 2 * PI)
  ELSE x

\* Math.sin, by its Taylor series on [-pi/2, pi/2].
RECURSIVE SinSeries(_, _, _, _)
SinSeries(x2, term, sum, k) ==
  IF term = 0 THEN sum
  ELSE SinSeries(x2, -Quot(Mul(term, x2), (k + 1) * (k + 2)), sum + term, k + 2)
SinReduced(x) == SinSeries(Mul(x, x), x, 0, 1)
SinWrapped(x) ==
  IF x > HALF_PI THEN SinReduced(PI - x)
  ELSE IF x < -HALF_PI THEN SinReduced(-PI - x)
  ELSE SinReduced(x)
Sin(x) == SinWrapped(Wrap(x))

\* Math.cos.
Cos(x) == Sin(HALF_PI - Abs(x))

\* Math.sqrt of a number in [0, 1].
RECURSIVE ISqrt(_, _, _)
ISqrtMid(n, lo, hi, mid) ==
  IF mid * mid <= n THEN ISqrt(n, mid, hi) ELSE ISqrt(n, lo, mid - 1)
ISqrt(n, lo, hi) ==
  IF lo >= hi THEN lo ELSE ISqrtMid(n, lo, hi, (lo + hi + 1) \div 2)
Sqrt(a) == ISqrt(a, 0, Half) * Half

\* Math.atan2(y, x) for y >= 0 and x >= 0, not both zero.
RECURSIVE AtanSeries(_, _, _, _)
AtanSeries(t2, power, sum, k) ==
  IF power = 0 THEN sum
  ELSE AtanSeries(t2, -Mul(power, t2), sum + Quot(power, k), k + 2)
AtanSmall(t) == AtanSeries(Mul(t, t), t, 0, 1)
Atan01(t) ==
  IF t <= TAN_PI_8 THEN AtanSmall(t)
  ELSE QUARTER_PI + AtanSmall(-FixDiv(One - t, One + t))
Atan2(y, x) ==
  IF y <= x THEN Atan01(FixDiv(y, x)) ELSE HALF_PI - Atan01(FixDiv(x, y))

\* const R = 6371; // Earth's radius in km
R == 6371

\* R * 2 * angle, in 1e-4 km.
TimesDiameter(angle) ==
  (angle \div Half) * (R * 2) + ((angle % Half) * (R * 2)) \div Half

\* haversineDistance(lat1, lng1, lat2, lng2)
HaversineA(sinLat, sinLng, cos1, cos2) ==
  Mul(sinLat, sinLat) + Mul(Mul(cos1, cos2), Mul(sinLng, sinLng))
\* Math.sqrt of a negative number is NaN, and so is all that is computed
\* from it.
HaversineOfA(a) ==
  IF a < 0 \/ a > One THEN NaN
  ELSE TimesDiameter(Atan2(Sqrt(a), Sqrt(One - a)))
\* A distance that takes the cosine of the first latitude twice.
HaversineOfOneLatitude(dLat, dLng, lat1, lat2) ==
  HaversineOfA(HaversineA(Sin(Quot(dLat, 2)), Sin(Quot(dLng, 2)),
                          Cos(ToRad(lat1)), Cos(ToRad(lat1))))

HaversineOf(dLat, dLng, lat1, lat2) ==
  HaversineOfA(HaversineA(Sin(Quot(dLat, 2)), Sin(Quot(dLng, 2)),
                          Cos(ToRad(lat1)), Cos(ToRad(lat2))))
\* A difference with NaN is NaN and one with an infinity is an infinity;
\* Math.sin and Math.cos of either are NaN, and NaN goes through every
\* product, sum, root and arc tangent after them.
HaversineDistance(lat1, lng1, lat2, lng2) ==
  IF \A x \in {lat1, lng1, lat2, lng2} : Finite(x)
  THEN HaversineOf(ToRad(lat2 - lat1), ToRad(lng2 - lng1), lat1, lat2)
  ELSE NaN

\* a < b: false when either is NaN.
Less(a, b) == a # NaN /\ b # NaN /\ a < b

\* findNearestEdge: the loop over the edges, in their order.
RECURSIVE NearestLoop(_, _, _, _, _, _)
\* A loop that keeps the point but not its distance.
NearestStepKeepingMin(edges, lat, lng, i, nearest, minDist, dist) ==
  IF Less(dist, minDist) THEN NearestLoop(edges, lat, lng, i + 1, edges[i], minDist)
  ELSE NearestLoop(edges, lat, lng, i + 1, nearest, minDist)

\* A loop that takes a point that is as near as the nearest so far.
NearestStepLastWins(edges, lat, lng, i, nearest, minDist, dist) ==
  IF dist # NaN /\ dist <= minDist
  THEN NearestLoop(edges, lat, lng, i + 1, edges[i], dist)
  ELSE NearestLoop(edges, lat, lng, i + 1, nearest, minDist)

NearestStep(edges, lat, lng, i, nearest, minDist, dist) ==
  IF Less(dist, minDist)
  THEN NearestLoop(edges, lat, lng, i + 1, edges[i], dist)
  ELSE NearestLoop(edges, lat, lng, i + 1, nearest, minDist)
NearestLoop(edges, lat, lng, i, nearest, minDist) ==
  IF i > Len(edges) THEN nearest
  ELSE NearestStep(edges, lat, lng, i, nearest, minDist,
                   HaversineDistance(lat, lng, edges[i].lat, edges[i].lng))
\* A loop that starts after the first point.
NearestInSkippingFirst(edges, lat, lng) ==
  NearestLoop(edges, lat, lng, 2, IF edges = <<>> THEN Undefined ELSE edges[1], Infinity)

\* A loop whose nearest has no value before a distance is less than
\* minDist: the fault NearestInDirectory rules out.
NearestInUnset(edges, lat, lng) ==
  NearestLoop(edges, lat, lng, 1, Undefined, Infinity)

\* let nearest = EDGE_LOCATIONS[0]; let minDist = Infinity: more than every
\* distance.
NearestIn(edges, lat, lng) ==
  NearestLoop(edges, lat, lng, 1,
              IF edges = <<>> THEN Undefined ELSE edges[1], Infinity)
FindNearestEdge(lat, lng) == NearestIn(EDGE_LOCATIONS, lat, lng)

(***************************************************************************)
(* SpecEdges: calls of the functions of the edge directory, one at a time. *)
(***************************************************************************)
\* The codes asked for: every code of the table, and strings that are not
\* one.
Codes ==
  {EDGE_LOCATIONS[i].code : i \in 1..Len(EDGE_LOCATIONS)}
    \cup {"lhr", "Lhr", "LHR ", "", "XXX", "London"}

\* Other tables the loop of findNearestEdge is run on: the two points of
\* the example, and tables with points at the same distance of (0, 0).
TwoPoints == <<E("AAA", "A", "AA", 0, 0), E("BBB", "B", "BB", 1000, 1000)>>
TiedPoints ==
  <<E("AAA", "A", "AA", 0, 100), E("BBB", "B", "BB", 0, -100),
    E("CCC", "C", "CC", 0, 100)>>
TiedAfterFar ==
  <<E("FAR", "F", "FF", 5000, 5000), E("BBB", "B", "BB", 100, 0),
    E("AAA", "A", "AA", -100, 0), E("MID", "M", "MM", 2000, 2000)>>

Q(edges, lat, lng) == [edges |-> edges, lat |-> lat, lng |-> lng]

\* The queries of findNearestEdge: the place of every edge of the table,
\* places between them, and the queries of the small tables.
NearestQueries ==
  {Q(EDGE_LOCATIONS, EDGE_LOCATIONS[i].lat, EDGE_LOCATIONS[i].lng) :
     i \in 1..Len(EDGE_LOCATIONS)}
    \cup {Q(EDGE_LOCATIONS, lat, lng) :
            lat \in {-6000, 0, 6000}, lng \in {-12000, 0, 12000}}
    \cup {Q(TwoPoints, 100, 100), Q(TwoPoints, 900, 900), Q(TwoPoints, 500, 500),
          Q(TiedPoints, 0, 0), Q(TiedPoints, 0, 50), Q(TiedAfterFar, 0, 0),
          Q(TiedAfterFar, 1900, 1900)}
    \cup {Q(EDGE_LOCATIONS, lat, lng) :
            lat \in {NaN, NegInfinity}, lng \in {0, Infinity}}
    \cup {Q(EDGE_LOCATIONS, 0, NaN), Q(EDGE_LOCATIONS, 20000, 0),
          Q(EDGE_LOCATIONS, -9100, 40000), Q(EDGE_LOCATIONS, 9100, -36000),
          Q(TwoPoints, Infinity, 100), Q(TwoPoints, 36100, 36100)}

\* The places haversineDistance is called on.
Places ==
  {<<0, 0>>, <<100, 100>>, <<1000, 1000>>, <<5147, -45>>, <<-3394, 15118>>,
   <<3577, 14039>>, <<9000, 0>>, <<-9000, 0>>, <<0, 18000>>, <<0, -18000>>,
   <<4069, -7417>>}

CallGetEdgeByCode(code) ==
  /\ probe = Idle
  /\ probe' = [pc |-> "returned", op |-> "getEdgeByCode", code |-> code,
               result |-> GetEdgeByCode(code)]
  /\ UNCHANGED <<clientVars, srv, worldMap>>

CallFindNearestEdge(q) ==
  /\ probe = Idle
  /\ probe' = [pc |-> "returned", op |-> "findNearestEdge", edges |-> q.edges,
               lat |-> q.lat, lng |-> q.lng,
               result |-> NearestIn(q.edges, q.lat, q.lng)]
  /\ UNCHANGED <<clientVars, srv, worldMap>>

CallHaversineDistance(a, b) ==
  /\ probe = Idle
  /\ probe' = [pc |-> "returned", op |-> "haversineDistance", a |-> a, b |-> b,
               result |-> HaversineDistance(a[1], a[2], b[1], b[2])]
  /\ UNCHANGED <<clientVars, srv, worldMap>>

\* The caller has the result.
Return ==
  /\ probe # Idle
  /\ probe' = Idle
  /\ UNCHANGED <<clientVars, srv, worldMap>>

NextEdges ==
  \/ \E code \in Codes : CallGetEdgeByCode(code)
  \/ \E q \in NearestQueries : CallFindNearestEdge(q)
  \/ \E a \in Places, b \in Places : CallHaversineDistance(a, b)
  \/ Return

SpecEdges == Init /\ [][NextEdges]_vars

Returned(op) == probe.pc = "returned" /\ probe.op = op
Indices(edges) == 1..Len(edges)

\* C12: no two points of the directory have the same code, so the lookup by
\* code is a function: every code of the directory has its point, and a
\* lookup that returned gave the one point that has the code asked for.
UniqueCodes ==
  /\ \A i, j \in Indices(EDGE_LOCATIONS) :
       EDGE_LOCATIONS[i].code = EDGE_LOCATIONS[j].code => i = j
  /\ \A i \in Indices(EDGE_LOCATIONS) :
       GetEdgeByCode(EDGE_LOCATIONS[i].code) = EDGE_LOCATIONS[i]
  /\ Returned("getEdgeByCode") =>
       \A i \in Indices(EDGE_LOCATIONS) :
         EDGE_LOCATIONS[i].code = probe.code => probe.result = EDGE_LOCATIONS[i]

\* A lookup returned a point of the directory.
CodeFound == Returned("getEdgeByCode") /\ probe.result # Undefined

\* C13: the lookup by code returns the point whose code is exactly the
\* string asked for, case included, and absence when no point has it; it
\* always returns, and asking again gives the same answer.
LookupExact ==
  Returned("getEdgeByCode") =>
    /\ (probe.result = Undefined) <=>
         (\A i \in Indices(EDGE_LOCATIONS) : EDGE_LOCATIONS[i].code # probe.code)
    /\ probe.result # Undefined =>
         /\ probe.result.code = probe.code
         /\ \E i \in Indices(EDGE_LOCATIONS) : EDGE_LOCATIONS[i] = probe.result
    /\ probe.code \in {"lhr", "Lhr", "LHR "} => probe.result = Undefined
    /\ probe.result = GetEdgeByCode(probe.code)

\* The code of London was asked for in lower case, and nothing was found.
LowercaseMissed ==
  Returned("getEdgeByCode") /\ probe.code = "lhr" /\ probe.result = Undefined

\* The distance from the place asked for to a point of the table.
DistTo(edge) == HaversineDistance(probe.lat, probe.lng, edge.lat, edge.lng)
IndexOf(edges, edge) == CHOOSE k \in Indices(edges) : edges[k] = edge

\* C14: the nearest-point lookup returns a point of the table, and no point
\* of the table is nearer to the place asked for; with AAA at (0, 0) and BBB
\* at (10, 10), the nearest point of (1, 1) is AAA.
NearestIsMinimal ==
  Returned("findNearestEdge") =>
    /\ \E i \in Indices(probe.edges) : probe.edges[i] = probe.result
    /\ \A i \in Indices(probe.edges) : DistTo(probe.result) <= DistTo(probe.edges[i])
    /\ (probe.edges = TwoPoints /\ probe.lat = 100 /\ probe.lng = 100) =>
         probe.result.code = "AAA"

\* The lookup of the example returned AAA.
ExampleNearest ==
  /\ Returned("findNearestEdge")
  /\ probe.edges = TwoPoints /\ probe.lat = 100 /\ probe.lng = 100
  /\ probe.result.code = "AAA"

\* C15: when several points are at the least distance, the lookup returns
\* the one that comes first in the table.
FirstOfTiesWins ==
  Returned("findNearestEdge") =>
    \A i \in Indices(probe.edges) :
      DistTo(probe.edges[i]) = DistTo(probe.result) =>
        IndexOf(probe.edges, probe.result) <= i

\* Two points of the table were at the least distance, and the lookup
\* returned the earlier one, which is not the first of the table.
TieResolved ==
  /\ Returned("findNearestEdge")
  /\ probe.edges = TiedAfterFar /\ probe.lat = 0 /\ probe.lng = 0
  /\ DistTo(TiedAfterFar[2]) = DistTo(TiedAfterFar[3])
  /\ probe.result = TiedAfterFar[2]

\* C16: asked for the place of a point P of the directory, the lookup
\* returns P when every other point is farther from that place than P.
SelfLookup ==
  Returned("findNearestEdge") /\ probe.edges = EDGE_LOCATIONS =>
    \A i \in Indices(EDGE_LOCATIONS) :
      ( /\ probe.lat = EDGE_LOCATIONS[i].lat
        /\ probe.lng = EDGE_LOCATIONS[i].lng
        /\ \A j \in Indices(EDGE_LOCATIONS) \ {i} :
             DistTo(EDGE_LOCATIONS[j]) > DistTo(EDGE_LOCATIONS[i]) )
      => probe.result = EDGE_LOCATIONS[i]

\* The lookup was asked for the place of London, every other point is
\* farther, and it returned London.
SelfFound ==
  /\ Returned("findNearestEdge")
  /\ probe.edges = EDGE_LOCATIONS /\ probe.lat = 5147 /\ probe.lng = -45
  /\ \A j \in Indices(EDGE_LOCATIONS) :
       EDGE_LOCATIONS[j].code # "LHR" => DistTo(EDGE_LOCATIONS[j]) > DistTo(probe.result)
  /\ probe.result.code = "LHR"

\* C17: the distance from a to b is the distance from b to a, and the
\* distance from a place to itself is 0.
HaversineSymmetric ==
  Returned("haversineDistance") =>
    /\ probe.result =
         HaversineDistance(probe.b[1], probe.b[2], probe.a[1], probe.a[2])
    /\ probe.a = probe.b => probe.result = 0
    /\ probe.result >= 0

\* The distance between two places of different latitudes was measured.
DistanceMeasured ==
  /\ Returned("haversineDistance")
  /\ probe.a = <<5147, -45>> /\ probe.b = <<-3394, 15118>>
  /\ probe.result > 0

(***************************************************************************)
(* The Worker's handler of POST /api/chat.  The handler keeps nothing      *)
(* between requests: every name it writes is local to one call.  A request *)
(* waits twice, on request.json() and on env.AI.run(), and requests may    *)
(* interleave at those two points.                                         *)
(***************************************************************************)
MaxRequests == 2
Requests == 1..MaxRequests

\* The first sentence of the literal; the rest of it enters no branch.
SYSTEM_PROMPT ==
  Text("You are an expert on Cloudflare's global edge network and latency optimization.")

MessageKey == Text("message")
HistoryKey == Text("history")
LocationKey == Text("location")

\* value.key of a value that is neither null nor undefined: the last own
\* property of that name of an object, undefined otherwise.
Prop(value, key) ==
  IF value.t = "obj" /\ KeyIndexes(value, key) # {}
  THEN value.v[CHOOSE k \in KeyIndexes(value, key) :
                 \A m \in KeyIndexes(value, key) : m <= k]
  ELSE JUndefined

\* history = [] in the destructuring: the default stands in for undefined
\* only.
HistoryOf(body) ==
  IF Prop(body, HistoryKey) = JUndefined THEN JArr(<<>>) ELSE Prop(body, HistoryKey)

\* getEdgeByCode(location.colo): a value that is not a string equals no
\* code.
EdgeOfColo(colo) ==
  IF colo.t = "str" /\ \E c \in Codes : Text(c) = colo.v
  THEN GetEdgeByCode(CHOOSE c \in Codes : Text(c) = colo.v)
  ELSE Undefined

\* ${edge ? ` (${edge.city}, ${edge.country})` : ""}
EdgeSuffix(edge) ==
  IF edge = Undefined THEN <<>>
  ELSE Text(" (" \o edge.city \o ", " \o edge.country \o ")")

ContextPrompt(location) ==
  IF Truthy(location)
  THEN SYSTEM_PROMPT
         \o Text("\n\nCurrent user connection info:\n- User location: ")
         \o ToStr(Prop(location, Text("city"))) \o Text(", ")
         \o ToStr(Prop(location, Text("country")))
         \o Text("\n- Connected to edge: ")
         \o ToStr(Prop(location, Text("colo")))
         \o EdgeSuffix(EdgeOfColo(Prop(location, Text("colo"))))
  ELSE SYSTEM_PROMPT

\* history.map(...) throws a TypeError when history has no map (it is not
\* an array) and when an element is null (m.role of null).
HistoryThrows(history) ==
  \/ history.t # "arr"
  \/ \E k \in 1..Len(history.v) : history.v[k].t = "null"

\* A build that reads edge.city of a lookup that found nothing.
BuildThrowsOnMiss(body) ==
  \/ body.t = "null"
  \/ HistoryThrows(HistoryOf(body))
  \/ /\ Truthy(Prop(body, LocationKey))
     /\ EdgeOfColo(Prop(Prop(body, LocationKey), Text("colo"))) = Undefined

\* The lines between the two awaits throw: destructuring null, or the map
\* over history.
BuildThrows(body) ==
  \/ body.t = "null"
  \/ HistoryThrows(HistoryOf(body))

RECURSIVE HistoryMessages(_, _)
HistoryMessages(items, i) ==
  IF i > Len(items) THEN <<>>
  ELSE <<[role |-> Prop(items[i], Text("role")),
          content |-> Prop(items[i], Text("content"))]>>
         \o HistoryMessages(items, i + 1)

ChatMessages(body) ==
  <<[role |-> JStr(Text("system")),
     content |-> JStr(ContextPrompt(Prop(body, LocationKey)))]>>
    \o HistoryMessages(HistoryOf(body).v, 1)
    \o <<[role |-> JStr(Text("user")), content |-> Prop(body, MessageKey)]>>

NoResponse == [status |-> 0]
StreamResponse(stream) ==
  [status |-> 200, contentType |-> "text/event-stream", body |-> stream]
ErrorResponse ==
  [status |-> 500, contentType |-> "application/json",
   body |-> Text("{\"error\":\"Failed to process chat request\"}")]

\* The requests answered with a stream so far.
Answered == {i \in DOMAIN srv : srv[i].pc = "done" /\ srv[i].outcome.status = 200}

\* A request at its arrival.
NewRequest(text) ==
  [pc |-> "json", text |-> text, body |-> JUndefined, prior |-> Answered,
   messages |-> <<>>, failed |-> "no", outcome |-> NoResponse]

\* A POST to /api/chat arrives; the handler awaits request.json().
ChatRequest(text) ==
  /\ Len(srv) < MaxRequests
  /\ srv' = Append(srv, NewRequest(text))
  /\ UNCHANGED <<clientVars, probe, worldMap>>

Pending(r, pc) == r \in DOMAIN srv /\ srv[r].pc = pc

Failed(r, stage) ==
  [srv EXCEPT ![r].pc = "done", ![r].failed = stage, ![r].outcome = ErrorResponse]

\* request.json() rejects while the handler is outside its try: the
\* rejection leaves fetch, and no response is made.
RequestJsonRejectedUncaught(r) ==
  /\ Pending(r, "json")
  /\ srv' = [srv EXCEPT ![r].pc = "exception", ![r].failed = "body"]
  /\ UNCHANGED <<clientVars, probe, worldMap>>

\* request.json() rejects (the body is not JSON, or it cannot be read to
\* its end): the catch answers.
RequestJsonRejected(r) ==
  /\ Pending(r, "json")
  /\ srv' = Failed(r, "body")
  /\ UNCHANGED <<clientVars, probe, worldMap>>

\* The handler from the body to the call of env.AI.run(), or to the catch.
Built(r, body) ==
  IF BuildThrows(body)
  THEN [Failed(r, "build") EXCEPT ![r].body = body]
  ELSE [srv EXCEPT ![r].pc = "ai", ![r].body = body,
                   ![r].messages = ChatMessages(body)]

\* request.json() resolves: the handler builds the messages and awaits
\* env.AI.run(), or a TypeError on the way takes it to the catch.
RequestJsonResolved(r) ==
  /\ Pending(r, "json")
  /\ JsonParse(srv[r].text).ok
  /\ srv' = Built(r, JsonParse(srv[r].text).v)
  /\ UNCHANGED <<clientVars, probe, worldMap>>

\* env.AI.run() resolves with the model's stream.
AiResolved(r, stream) ==
  /\ Pending(r, "ai")
  /\ srv' = [srv EXCEPT ![r].pc = "done", ![r].outcome = StreamResponse(stream)]
  /\ UNCHANGED <<clientVars, probe, worldMap>>

\* env.AI.run() rejects.
AiRejected(r) ==
  /\ Pending(r, "ai")
  /\ srv' = Failed(r, "ai")
  /\ UNCHANGED <<clientVars, probe, worldMap>>

(***************************************************************************)
(* The client's lookup of the connected edge at a render.                  *)
(***************************************************************************)
\* App: edges.find((e) => e.code === locationData?.colo)
AppConnectedEdge(edges, locationData) ==
  IF locationData = Null THEN Undefined ELSE FindByCode(edges, locationData.colo)

\* connectedEdge?.city
EdgeCity(connectedEdge) ==
  IF connectedEdge = Undefined THEN Undefined ELSE connectedEdge.city

\* WorldMap: the memo of connectedEdge.
MapConnectedEdge(edges, userLocation) ==
  IF userLocation # Null /\ userLocation.colo # ""
  THEN FindByCode(edges, userLocation.colo)
  ELSE Null

\* The dots drawn with isConnected: connectedEdge?.code === edge.code
ConnectedDots(edges, connectedEdge) ==
  IF connectedEdge \in {Undefined, Null} THEN {}
  ELSE {i \in Indices(edges) : connectedEdge.code = edges[i].code}

RenderApp(edges, locationData) ==
  /\ probe = Idle
  /\ probe' = [pc |-> "returned", op |-> "render", edges |-> edges,
               locationData |-> locationData,
               connectedEdge |-> AppConnectedEdge(edges, locationData),
               edgeCity |-> EdgeCity(AppConnectedEdge(edges, locationData)),
               mapConnectedEdge |-> MapConnectedEdge(edges, locationData),
               dots |-> ConnectedDots(edges, MapConnectedEdge(edges, locationData))]
  /\ UNCHANGED <<clientVars, srv, worldMap>>

\* The bodies posted: a message without history or location, a message
\* with history and a location whose code is in the directory, one whose
\* code is not, JSON null, a history that is no array and a text that is
\* not JSON.
RequestBodies ==
  {Text("{\"message\":\"why\"}"),
   Text("{\"message\":\"more\",\"history\":[{\"role\":\"user\",\"content\":\"hi\"},{\"role\":\"assistant\",\"content\":\"Hi\"}],\"location\":{\"city\":\"London\",\"country\":\"GB\",\"colo\":\"LHR\"}}"),
   Text("{\"message\":\"hi\",\"location\":{\"city\":\"Unknown\",\"country\":\"Unknown\",\"colo\":\"XXX\"}}"),
   Text("null"),
   Text("{\"message\":\"hi\",\"history\":null}"),
   Text("{\"message\":")}

AiStreams == {HiBody}

\* The renders: before the data is loaded, with the location of the catch
\* and no directory, and after the load, with a code the directory has and
\* with the code the Worker gives when it knows none.
Renders ==
  {[edges |-> <<>>, locationData |-> Null],
   [edges |-> <<>>, locationData |-> [colo |-> "LHR"]],
   [edges |-> EDGE_LOCATIONS, locationData |-> [colo |-> "LHR"]],
   [edges |-> EDGE_LOCATIONS, locationData |-> [colo |-> "Unknown"]]}

NextServer ==
  \/ \E text \in RequestBodies : ChatRequest(text)
  \/ \E r \in Requests : RequestJsonResolved(r)
  \/ \E r \in Requests : RequestJsonRejected(r)
  \/ \E r \in Requests, stream \in AiStreams : AiResolved(r, stream)
  \/ \E r \in Requests : AiRejected(r)
  \/ \E render \in Renders : RenderApp(render.edges, render.locationData)
  \/ Return

SpecServer == Init /\ [][NextServer]_vars

\* The message of a request whose messages were built: the content of the
\* last of them.
MessageOf(r) == srv[r].messages[Len(srv[r].messages)].content

\* C11: the turns of the requests answered before a request arrived are in
\* the context built for it, before its own message, whether or not the
\* client sent them again.
HistoryRetained ==
  \A j \in DOMAIN srv :
    srv[j].messages # <<>> =>
      \A i \in srv[j].prior :
        \E k \in 2..(Len(srv[j].messages) - 1) :
          /\ srv[j].messages[k].role = JStr(Text("user"))
          /\ srv[j].messages[k].content = MessageOf(i)

DirectoryCodeTexts == {Text(EDGE_LOCATIONS[i].code) : i \in Indices(EDGE_LOCATIONS)}

ColoOf(body) == Prop(Prop(body, LocationKey), Text("colo"))

\* A body that nothing but a lookup miss could make fail: it carries a
\* location whose code is a string that no point of the directory has.
MissesEdge(body) ==
  /\ body.t = "obj"
  /\ ~HistoryThrows(HistoryOf(body))
  /\ Truthy(Prop(body, LocationKey))
  /\ ColoOf(body).t = "str"
  /\ ColoOf(body).v \notin DirectoryCodeTexts

EndsWith(text, tail) ==
  /\ Len(text) >= Len(tail)
  /\ SubSeq(text, Len(text) - Len(tail) + 1, Len(text)) = tail

MissHandled(r, body) ==
  MissesEdge(body) =>
    /\ srv[r].failed # "build"
    /\ srv[r].messages # <<>>
    /\ EndsWith(srv[r].messages[1].content.v,
                Text("\n- Connected to edge: ") \o ColoOf(body).v)
    /\ (srv[r].pc = "done" /\ srv[r].failed = "no") =>
         /\ srv[r].outcome.status = 200
         /\ srv[r].outcome.contentType = "text/event-stream"

RenderMissed ==
  /\ Returned("render")
  /\ probe.locationData # Null
  /\ \A i \in Indices(probe.edges) : probe.edges[i].code # probe.locationData.colo

\* C18: a code that is not in the directory fails nothing.  The handler
\* of a request whose location carries such a code builds the context,
\* which ends with the code and no city or country, calls the model, and
\* answers with the stream when the call resolves; the client's render
\* has no connected edge, no edge city and no dot marked as connected.
LookupMissIsNoError ==
  /\ \A r \in DOMAIN srv :
       (srv[r].pc # "json" /\ srv[r].failed # "body") =>
         MissHandled(r, srv[r].body)
  /\ RenderMissed =>
       /\ probe.connectedEdge = Undefined
       /\ probe.edgeCity = Undefined
       /\ probe.mapConnectedEdge = Undefined
       /\ probe.dots = {}

\* A request whose location has a code unknown to the directory was
\* answered with the stream, and the client rendered a location whose code
\* the loaded directory does not have.
MissAnswered ==
  /\ \E r \in DOMAIN srv :
       /\ srv[r].pc = "done" /\ srv[r].outcome.status = 200
       /\ MissesEdge(srv[r].body)
  /\ RenderMissed /\ probe.edges = EDGE_LOCATIONS

\* The error is a response of status 500 whose body is the JSON text of
\* an object with the property error.
ErrorIsStructured ==
  /\ ErrorResponse.status = 500
  /\ ErrorResponse.contentType = "application/json"
  /\ JsonParse(ErrorResponse.body).ok
  /\ Prop(JsonParse(ErrorResponse.body).v, Text("error")).t = "str"

\* C19: a POST to /api/chat ends in one of two responses: the event
\* stream with the stream of the model, or the JSON error of status 500;
\* a failure of request.json(), of the build or of env.AI.run() ends in
\* the error, and the handler never ends in an exception.
ChatOutcomes ==
  \A r \in DOMAIN srv :
    /\ srv[r].pc \in {"json", "ai", "done"}
    /\ srv[r].pc # "done" => srv[r].failed = "no" /\ srv[r].outcome = NoResponse
    /\ srv[r].pc = "done" =>
         \/ /\ srv[r].failed = "no"
            /\ srv[r].outcome \in {StreamResponse(stream) : stream \in AiStreams}
         \/ /\ srv[r].failed \in {"body", "build", "ai"}
            /\ srv[r].outcome = ErrorResponse
            /\ ErrorIsStructured

\* One request was answered with the stream, and one whose call of the
\* model was rejected with the error.
BothOutcomes ==
  \E r, q \in DOMAIN srv :
    /\ srv[r].pc = "done" /\ srv[r].outcome.status = 200
    /\ srv[q].pc = "done" /\ srv[q].failed = "ai" /\ srv[q].outcome = ErrorResponse

\* Payloads that JSON.parse accepts: null, a number, a boolean, a string,
\* an array, objects without the property response, and objects with it.
ParsingPayloads ==
  {Text("null"), Text("7"), Text("true"), Text("\"s\""), Text("[1]"),
   Text("{}"), Text("{\"r\":1}"), Text("{\"response\":\"t\"}"),
   Text("{\"response\":\"a b\",\"p\":null}")}

\* What the payload appends when its parsed value is p: the value of its
\* property response when it has one, nothing otherwise.
FieldOnly(fullResponse, p) ==
  IF p.t = "obj" /\ KeyIndexes(p, ResponseKey) # {}
  THEN fullResponse \o ToStr(GetResponse(p))
  ELSE fullResponse

\* C20: a payload that JSON.parse accepts appends the value of its
\* property response if it has one and nothing otherwise, never its own
\* text; so the reply whose first payload is null does not begin with the
\* text null.
ParsedAppendsField ==
  \A e \in DOMAIN ex :
    Streamed(e) =>
      /\ \A data \in ParsingPayloads :
           ProcessLine(ex[e].st.fullResponse, DataPrefix \o data)
             = FieldOnly(ex[e].st.fullResponse, JsonParse(data).v)
      /\ (Closed(e) /\ ex[e].body = ValuesBody) =>
           ~StartsWith(ex[e].st.fullResponse, Text("null"))

(***************************************************************************)
(* The lines and the turns of the read loop (SpecStream).                  *)
(***************************************************************************)
\* Lines whose trimmed text does not start with "data: ": blank lines,
\* comments, other fields, the field name without the space, and the
\* prefix alone, which trim() shortens to "data:".
NonDataLines ==
  {<<>>, Text("  \r"), Text(": ping"), Text("event: x"), Text("id: 1"),
   Text("data:{\"response\":\"n\"}"), Text("data: "), Text("Data: x"),
   Text("x data: {\"response\":\"n\"}")}

\* C21: a complete line whose trimmed text does not start with "data: "
\* leaves the accumulated text as it is, and a chunk that is such a line
\* and its newline leaves the accumulated text and the buffer as they
\* are (the state of the exchange is not touched by a line); the reply
\* made of a comment, an event field, a blank line, a data field without
\* the space and one data line ends with the text of that one line.
NonDataIgnored ==
  \A e \in DOMAIN ex :
    Streamed(e) =>
      /\ \A line \in NonDataLines :
           /\ ProcessLine(ex[e].st.fullResponse, line) = ex[e].st.fullResponse
           /\ (ex[e].st.buffer = <<>> /\ ex[e].st.decoder.needed = 0) =>
                /\ ChunkStep(ex[e].st, line \o <<LF>>).fullResponse
                     = ex[e].st.fullResponse
                /\ ChunkStep(ex[e].st, line \o <<LF>>).buffer = <<>>
      /\ (Closed(e) /\ ex[e].body = OtherFieldsBody) =>
           (ex[e].st.fullResponse = Text("ok") /\ NoErrorMessage)

\* The reply with lines that are no data lines has ended.
IgnoredLinesRead ==
  \E e \in DOMAIN ex :
    Closed(e) /\ ex[e].body = OtherFieldsBody
      /\ messages[Len(messages)].content = Text("ok")

IsPrefix(a, b) == Len(a) <= Len(b) /\ SubSeq(b, 1, Len(a)) = a

\* A step that is a turn of the read loop of exchange e.
ChunkTurn(e) ==
  /\ e \in DOMAIN ex' /\ ex[e].pc = "read" /\ ex'[e].pc = "read"
  /\ ex'[e] # ex[e]

\* C22: while a stream is open the accumulated text only grows: in every
\* step the accumulated text of an exchange is a prefix of its new value,
\* and a snapshot passed to the display begins with the snapshot before it.
AccumulatedGrows ==
  [][\A e \in DOMAIN ex :
       /\ e \in DOMAIN ex'
       /\ IsPrefix(ex[e].st.fullResponse, ex'[e].st.fullResponse)
       /\ (ex[e].turn.emitted # <<>> /\ ex'[e].turn.emitted # <<>>) =>
            IsPrefix(ex[e].turn.emitted[1], ex'[e].turn.emitted[1])]_vars

\* The reply of six payloads has ended with the text of the first payload
\* followed by that of the last.
GrownToTheEnd ==
  \E e \in DOMAIN ex :
    /\ Closed(e) /\ ex[e].body = ValuesBody
    /\ ex[e].st.fullResponse = Text("null5")
    /\ ex[e].turn.emitted = <<Text("null5")>>

\* C23: a turn of the read loop passes one value to the display, after
\* the complete lines of its chunk have been processed, and the value is
\* the accumulated text at that moment: the text after all the lines, which
\* the assistant message then holds.
OneSnapshotPerChunk ==
  [][\A e \in DOMAIN ex :
       ChunkTurn(e) =>
         /\ Len(ex'[e].turn.emitted) = 1
         /\ ex'[e].turn.emitted[1] = ex'[e].st.fullResponse
         /\ ex'[e].st.fullResponse =
              ChunkStep(ex[e].st,
                        SubSeq(ex[e].body, ex[e].pos + 1, ex'[e].pos)).fullResponse
         /\ messages'[ex[e].slot].content = ex'[e].st.fullResponse]_vars

\* A turn has processed several lines and passed one value to the display.
SeveralLinesOneSnapshot ==
  \E e \in DOMAIN ex :
    /\ ex[e].pc = "read" /\ ex[e].turn.lines >= 3
    /\ Len(ex[e].turn.emitted) = 1
    /\ ex[e].turn.emitted[1] # <<>>

\* C24: an empty chunk leaves the buffer, the accumulated text and the
\* decoder as they are, whatever they hold, and the turn that receives it
\* leaves the exchange reading and the loading flag set.
EmptyChunkIsNoop ==
  [][\A e \in DOMAIN ex :
       /\ Streamed(e) => ChunkStep(ex[e].st, <<>>) = ex[e].st
       /\ ( /\ e \in DOMAIN ex' /\ ex[e].pc = "read"
            /\ ex'[e].turn # ex[e].turn /\ ex'[e].pos = ex[e].pos ) =>
            /\ ex'[e].turn.empty
            /\ ex'[e].pc = "read"
            /\ ex'[e].st = ex[e].st
            /\ isChatLoading' = isChatLoading
            /\ messages'[ex[e].slot].content = ex[e].st.fullResponse]_vars

\* An empty chunk was received while the buffer held an unfinished line and
\* the decoder the first bytes of a character.
EmptyChunkMidCharacter ==
  \E e \in DOMAIN ex :
    /\ ex[e].pc = "read" /\ ex[e].turn.empty
    /\ ex[e].st.buffer # <<>> /\ ex[e].st.decoder.needed # 0

RECURSIVE Contributions(_, _)
\* What each line appends on its own, joined in the order of the lines.
Contributions(lines, i) ==
  IF i > Len(lines) THEN <<>>
  ELSE ProcessLine(<<>>, lines[i]) \o Contributions(lines, i + 1)

\* C25: the accumulated text is what the complete lines received so far
\* contribute, each on its own, joined in the order of the lines in the
\* byte stream, however the lines were spread over chunks.
OrderKept ==
  \A e \in DOMAIN ex :
    Streamed(e) =>
      ex[e].st.fullResponse =
        Contributions(AllButLast(LinesOf(ex[e].body, ex[e].pos)), 1)

\* Two lines have been folded, the earlier first, and a third is yet to
\* arrive.
TwoLinesInOrder ==
  \E e \in DOMAIN ex :
    /\ ex[e].pc = "read" /\ ex[e].body = MalformedBody
    /\ ex[e].st.fullResponse = Text("a{oops")
    /\ ex[e].pos < Len(ex[e].body)

(***************************************************************************)
(* SpecChat: the client and the Worker together.  handleSendMessage sends  *)
(* its request in the step that appends the user message; the Worker       *)
(* parses it and builds the model's messages; its response settles the     *)
(* client's fetch.  Exchange e and request e are the same call.            *)
(***************************************************************************)
\* JSON.stringify of a string (QuoteJSONString).
HexChar(d) == IF d < 10 THEN 48 + d ELSE 87 + d

EscapeOf(c) ==
  IF c = 34 THEN <<92, 34>>
  ELSE IF c = 92 THEN <<92, 92>>
  ELSE IF c = 8 THEN <<92, 98>>
  ELSE IF c = 12 THEN <<92, 102>>
  ELSE IF c = 10 THEN <<92, 110>>
  ELSE IF c = 13 THEN <<92, 114>>
  ELSE IF c = 9 THEN <<92, 116>>
  ELSE IF c < 32 THEN <<92, 117, 48, 48, HexChar(c \div 16), HexChar(c % 16)>>
  ELSE <<c>>

\* The characters of s from index i with the escapes, a run of characters
\* that need none at a time.
RECURSIVE QuoteChars(_, _)
QuoteChars(s, i) ==
  LET j == RunEnd(s, i)
  IN  IF j > Len(s) THEN SubSeq(s, i, Len(s))
      ELSE SubSeq(s, i, j - 1) \o EscapeOf(s[j]) \o QuoteChars(s, j + 1)

Quote(s) == <<34>> \o QuoteChars(s, 1) \o <<34>>

\* JSON.stringify of messages.map((m) => ({ role: m.role, content: m.content }))
TurnText(m) ==
  Text("{\"role\":") \o Quote(Text(m.role))
    \o Text(",\"content\":") \o Quote(m.content) \o Text("}")

RECURSIVE TurnsText(_, _)
TurnsText(msgs, i) ==
  IF i > Len(msgs) THEN <<>>
  ELSE (IF i > 1 THEN Comma ELSE <<>>) \o TurnText(msgs[i])
         \o TurnsText(msgs, i + 1)

\* JSON.stringify of locationData: null until the location is loaded; of
\* its fields, the three that the Worker reads.
LocationText(location) ==
  IF location = Null THEN Text("null")
  ELSE Text("{\"colo\":") \o Quote(Text(location.colo))
         \o Text(",\"city\":") \o Quote(Text(location.city))
         \o Text(",\"country\":") \o Quote(Text(location.country)) \o Text("}")

\* A body whose history is taken after the new user message was added: the
\* fault ContextInOrder rules out.
RequestBodyWithNewMessage(content, msgs, location) ==
  Text("{\"message\":") \o Quote(content)
    \o Text(",\"history\":[")
    \o TurnsText(Append(msgs, [role |-> "user", content |-> content]), 1)
    \o Text("],\"location\":") \o LocationText(location) \o Text("}")

\* JSON.stringify({ message: content, history: messages.map(...),
\* location: locationData }), messages being the state of the render in
\* which the callback was made: the list without the new user message.
RequestBody(content, msgs, location) ==
  Text("{\"message\":") \o Quote(content)
    \o Text(",\"history\":[") \o TurnsText(msgs, 1)
    \o Text("],\"location\":") \o LocationText(location) \o Text("}")

\* handleSendMessage up to its first await, with the request of its fetch.
SendMessage(content, location) ==
  /\ HandleSendMessage(content)
  /\ srv' = Append(srv, NewRequest(RequestBody(content, messages, location)))

ChatSubmit(input, location) ==
  /\ showChat
  /\ Trim(input) # <<>> /\ ~isChatLoading
  /\ SendMessage(Trim(input), location)
  /\ UNCHANGED <<showChat, now, probe, worldMap>>

ChatEdgeClick(edge, location) ==
  /\ showChat' = TRUE
  /\ SendMessage(EdgeQuestion(edge), location)
  /\ UNCHANGED <<now, probe, worldMap>>

\* The fetch resolves with the Worker's response.
ChatFetchStream(e) ==
  /\ Pending(e, "done") /\ srv[e].outcome.status = 200
  /\ FetchStream(e, srv[e].outcome.body)

ChatFetchNotOk(e) ==
  /\ Pending(e, "done") /\ srv[e].outcome.status = 500
  /\ FetchNotOk(e)

\* A reply whose text has a quote, a backslash and a line feed in it, read
\* in two halves.
QuotedBody == Text("data: {\"response\":\"\\\"Hi\\\"\\\\ \\n\"}\n\n")
QuotedText == Text("\"Hi\"\\ \n")
ChatChunks == {Len(QuotedBody) \div 2}

Locations ==
  {Null, [colo |-> "LHR", city |-> "London", country |-> "GB"]}

NextChat ==
  \/ OpenChat
  \/ \E input \in Inputs, location \in Locations : ChatSubmit(input, location)
  \/ \E edge \in Edges, location \in Locations :
       Len(ex) <= 1 /\ ChatEdgeClick(edge, location)
  \/ \E r \in Exchanges : RequestJsonResolved(r)
  \/ \E r \in Exchanges : AiResolved(r, QuotedBody)
  \/ \E r \in Exchanges : AiRejected(r)
  \/ \E e \in Exchanges : Live(e) /\ ChatFetchStream(e)
  \/ \E e \in Exchanges : Live(e) /\ ChatFetchNotOk(e)
  \/ \E e \in Exchanges, n \in ChatChunks : Live(e) /\ ReadChunk(e, n)
  \/ \E e \in Exchanges : Live(e) /\ ReadDone(e)

SpecChat == Init /\ [][NextChat]_vars

\* The turn that stands for message m in a request body.
TurnOf(m) ==
  JObj(<<Text("role"), Text("content")>>,
       <<JStr(Text(m.role)), JStr(m.content)>>)

\* A request sent in a step from the list before to the list after has,
\* body being its parsed text: the new message, a user message at the end
\* of the list, as its message and, as its history, the messages before
\* the new one, in their order.
SentWithPriorTurns(body, before, after) ==
  /\ body.ok
  /\ after = Append(before, after[Len(after)])
  /\ after[Len(after)].role = "user"
  /\ Prop(body.v, MessageKey) = JStr(after[Len(after)].content)
  /\ HistoryOf(body.v) = JArr([i \in 1..Len(before) |-> TurnOf(before[i])])

\* The messages built for a request of this body: the system prompt, the
\* turns of the body's history in their order, the body's message as the
\* last, a user turn.
BuiltInOrder(body, turns, built) ==
  /\ Len(built) = Len(turns) + 2
  /\ built[1].role = JStr(Text("system"))
  /\ SubSeq(built[1].content.v, 1, Len(SYSTEM_PROMPT)) = SYSTEM_PROMPT
  /\ \A i \in 1..Len(turns) :
       built[i + 1] = [role |-> Prop(turns[i], Text("role")),
                       content |-> Prop(turns[i], Text("content"))]
  /\ built[Len(built)] =
       [role |-> JStr(Text("user")), content |-> Prop(body, MessageKey)]

Appended ==
  /\ Len(messages') = Len(messages) + 1
  /\ SubSeq(messages', 1, Len(messages)) = messages

\* The list differs at most in the content of the assistant message that
\* exchange e appended, which is now the accumulated text of e.
SnapshotOf(e) ==
  /\ e \in DOMAIN ex' /\ ex[e].slot # 0
  /\ messages' = [messages EXCEPT ![ex[e].slot].content = ex'[e].st.fullResponse]

\* C26 (as stated): the message list changes only by a message appended at
\* its end or by the content of the assistant message of the exchange that
\* takes the step being replaced with its snapshot; the assistant message
\* of a stream is appended with content "", and no step changes, removes
\* or moves any other message.
MessagesFrame ==
  [][/\ \/ messages' = messages
        \/ Appended
        \/ \E e \in DOMAIN ex : ChunkTurn(e) /\ SnapshotOf(e)
     /\ \A e \in DOMAIN ex :
          (e \in DOMAIN ex' /\ ex[e].pc = "fetch" /\ ex'[e].pc = "read") =>
            /\ Appended
            /\ messages'[Len(messages')].role = "assistant"
            /\ messages'[Len(messages')].content = <<>>]_vars

(***************************************************************************)
(* The loading flag (SpecSingleFair).                                      *)
(***************************************************************************)
\* C28: every exchange that has started comes to its end, on every path
\* (the stream ended, the response not ok, the fetch or the read rejected,
\* the fallback without a body), and the loading flag is then cleared.
LoadingCleared ==
  \A e \in {1} :
    (Live(e) /\ InFlight(e)) ~> (Live(e) /\ ~InFlight(e) /\ ~isChatLoading)

\* The read of the body has failed after part of the reply, and the flag
\* is cleared.
ClearedAfterReadError ==
  /\ Live(1) /\ ex[1].pc = "error" /\ ex[1].response = "ok"
  /\ ex[1].pos > 0
  /\ ~isChatLoading

(***************************************************************************)
(* The nearest-point lookup on every input (SpecEdges).                    *)
(***************************************************************************)
\* C29: for every input, a coordinate out of its range, NaN or an infinity
\* among them, findNearestEdge returns a point of the table, and the first
\* of them when no distance is a number.
NearestInDirectory ==
  Returned("findNearestEdge") =>
    /\ probe.result # Undefined
    /\ \E i \in Indices(probe.edges) : probe.result = probe.edges[i]
    /\ (\A i \in Indices(probe.edges) : DistTo(probe.edges[i]) = NaN) =>
         probe.result = probe.edges[1]

\* The lookup was asked for a place whose latitude is NaN, every distance
\* was NaN, and it returned the first point of the directory.
FirstWhenNothingCompares ==
  /\ Returned("findNearestEdge")
  /\ probe.edges = EDGE_LOCATIONS /\ probe.lat = NaN
  /\ \A i \in Indices(EDGE_LOCATIONS) : DistTo(EDGE_LOCATIONS[i]) = NaN
  /\ probe.result = EDGE_LOCATIONS[1]

\* The lookup was asked for a place out of the range of the coordinates,
\* and it returned a point at a distance that is a number.
OutOfRangeAnswered ==
  /\ Returned("findNearestEdge")
  /\ probe.edges = EDGE_LOCATIONS /\ probe.lat = 20000
  /\ Finite(DistTo(probe.result))

(***************************************************************************)
(* SpecMap: the zoom buttons and the drags of WorldMap.  A move is         *)
(* throttled: the handler leaves its arguments for the next animation      *)
(* frame, and the callback of the frame changes the pan.  The touch        *)
(* handlers do what the mouse handlers do, with the place of the one       *)
(* touch.                                                                  *)
(***************************************************************************)
WIDTH == 1000
HEIGHT == 500
MIN_ZOOM == 1
MAX_ZOOM == 4

\* How many moves a behaviour holds.
MaxMoves == 2

\* The bounding rectangle of the svg element, and the places of the
\* pointer: three corners of it.
Rect == [width |-> 800, height |-> 400]
Pointers ==
  {[x |-> 0, y |-> 0], [x |-> Rect.width, y |-> 0],
   [x |-> Rect.width, y |-> Rect.height]}

ZoomFactor == Frac(3, 2)

\* setZoom((z) => Math.min(z * 1.5, MAX_ZOOM)); the button is disabled
\* when zoom >= MAX_ZOOM.
HandleZoomIn ==
  /\ ~FLeq(Whole(MAX_ZOOM), worldMap.zoom)
  /\ worldMap' = [worldMap EXCEPT
                    !.zoom = FMin(FMul(worldMap.zoom, ZoomFactor), Whole(MAX_ZOOM))]
  /\ UNCHANGED <<clientVars, srv, probe>>

\* Math.max(zoom / 1.5, MIN_ZOOM)
ZoomedOut(zoom) == FMax(FDiv(zoom, ZoomFactor), Whole(MIN_ZOOM))

\* handleZoomOut; the button is disabled when zoom <= MIN_ZOOM.
HandleZoomOut ==
  /\ ~FLeq(worldMap.zoom, Whole(MIN_ZOOM))
  /\ worldMap' = [worldMap EXCEPT
                    !.zoom = ZoomedOut(worldMap.zoom),
                    !.pan = IF ZoomedOut(worldMap.zoom) = Whole(1)
                            THEN [x |-> Whole(0), y |-> Whole(0)]
                            ELSE worldMap.pan]
  /\ UNCHANGED <<clientVars, srv, probe>>

\* handleZoomReset; the button is disabled when zoom === 1.
HandleZoomReset ==
  /\ worldMap.zoom # Whole(1)
  /\ worldMap' = [worldMap EXCEPT !.zoom = Whole(1),
                                  !.pan = [x |-> Whole(0), y |-> Whole(0)]]
  /\ UNCHANGED <<clientVars, srv, probe>>

\* The viewBox of a render.
ViewBoxSize(size, zoom) == FDiv(Whole(size), zoom)
MaxPan(size, zoom) ==
  FMax(Whole(0), FDiv(FSub(Whole(size), ViewBoxSize(size, zoom)), Whole(2)))

\* A pan that is used as it is stored: the fault ViewInsideMap rules out.
StoredPan(maxPan, pan) == pan

\* Math.max(-maxPanX, Math.min(maxPanX, pan.x))
ClampedPan(maxPan, pan) == FMax(FNeg(maxPan), FMin(maxPan, pan))

\* centerX - viewBoxWidth / 2 + clampedPanX
ViewBoxStart(size, zoom, pan) ==
  FAdd(FSub(FDiv(Whole(size), Whole(2)),
            FDiv(ViewBoxSize(size, zoom), Whole(2))),
       ClampedPan(MaxPan(size, zoom), pan))

ViewBoxX == ViewBoxStart(WIDTH, worldMap.zoom, worldMap.pan.x)
ViewBoxY == ViewBoxStart(HEIGHT, worldMap.zoom, worldMap.pan.y)
ViewBoxWidth == ViewBoxSize(WIDTH, worldMap.zoom)
ViewBoxHeight == ViewBoxSize(HEIGHT, worldMap.zoom)

\* handleMouseDown, handleTouchStart: nothing when zoom <= 1.
HandleMouseDown(at) ==
  /\ ~FLeq(worldMap.zoom, Whole(1))
  /\ worldMap' = [worldMap EXCEPT !.rect = Rect, !.dragStart = at,
                                  !.isDragging = TRUE]
  /\ UNCHANGED <<clientVars, srv, probe>>

\* The throttled handleMouseMove, handleTouchMove: nothing while a frame
\* is awaited.
HandleMouseMove(at) ==
  /\ worldMap.frame = Null
  /\ worldMap.moves < MaxMoves
  /\ worldMap' = [worldMap EXCEPT !.frame = at, !.moves = worldMap.moves + 1]
  /\ UNCHANGED <<clientVars, srv, probe>>

\* (e.clientX - dragStartRef.current.x) * scaleX
Dragged(at, start, viewBoxSize, rectSize) ==
  FMul(Whole(at - start), FDiv(viewBoxSize, Whole(rectSize)))

\* The animation frame: the callback of the move, with the state of the
\* last render.
AnimationFrame ==
  /\ worldMap.frame # Null
  /\ worldMap' =
       IF ~worldMap.isDragging \/ worldMap.rect = Null
       THEN [worldMap EXCEPT !.frame = Null]
       ELSE [worldMap EXCEPT
               !.frame = Null,
               !.pan = [x |-> FSub(worldMap.pan.x,
                                   Dragged(worldMap.frame.x, worldMap.dragStart.x,
                                           ViewBoxWidth, worldMap.rect.width)),
                        y |-> FSub(worldMap.pan.y,
                                   Dragged(worldMap.frame.y, worldMap.dragStart.y,
                                           ViewBoxHeight, worldMap.rect.height))],
               !.dragStart = worldMap.frame]
  /\ UNCHANGED <<clientVars, srv, probe>>

\* handleMouseUp, handleMouseLeave, handleTouchEnd
HandleMouseUp ==
  /\ worldMap.isDragging \/ worldMap.rect # Null
  /\ worldMap' = [worldMap EXCEPT !.isDragging = FALSE, !.rect = Null]
  /\ UNCHANGED <<clientVars, srv, probe>>

NextMap ==
  \/ HandleZoomIn
  \/ HandleZoomOut
  \/ HandleZoomReset
  \/ \E at \in Pointers : HandleMouseDown(at)
  \/ \E at \in Pointers : HandleMouseMove(at)
  \/ AnimationFrame
  \/ HandleMouseUp

SpecMap == Init /\ [][NextMap]_vars

\* C30: after any sequence of zoom-in, zoom-out, reset and drags, the zoom
\* is in [1, 4] and the viewBox of the render lies within the map of 1000
\* by 500, whatever the stored pan is.
ViewInsideMap ==
  /\ FLeq(Whole(MIN_ZOOM), worldMap.zoom) /\ FLeq(worldMap.zoom, Whole(MAX_ZOOM))
  /\ FLeq(Whole(0), ViewBoxX) /\ FLeq(FAdd(ViewBoxX, ViewBoxWidth), Whole(WIDTH))
  /\ FLeq(Whole(0), ViewBoxY) /\ FLeq(FAdd(ViewBoxY, ViewBoxHeight), Whole(HEIGHT))

\* The stored pan is beyond its limit on both axes after drags at a zoom
\* above 1, and the viewBox ends at the right and lower edges of the map.
PanBeyondLimit ==
  /\ ~FLeq(worldMap.zoom, Whole(1))
  /\ ~FLeq(worldMap.pan.x, MaxPan(WIDTH, worldMap.zoom))
  /\ ~FLeq(worldMap.pan.y, MaxPan(HEIGHT, worldMap.zoom))
  /\ FAdd(ViewBoxX, ViewBoxWidth) = Whole(WIDTH)
  /\ FAdd(ViewBoxY, ViewBoxHeight) = Whole(HEIGHT)

====
